---- MODULE Spec2Model ----
(***************************************************************************)
(* Voice-conversation orchestrator: the resilient client with its shared   *)
(* circuit-breaker registry (orchestrator/service.py, safe_post) and the   *)
(* WebSocket voice session handler (orchestrator/voice_ws.py).             *)
(*                                                                         *)
(* asyncio runs every coroutine on one thread: the code between two awaits *)
(* is one atomic step, and another coroutine may run at every await.  Each *)
(* action below is one such segment.                                       *)
(***************************************************************************)
EXTENDS Integers, Sequences, FiniteSets, TLC

VARIABLES
    now,               \* time.time(), in whole seconds
    circuit_breakers,  \* service.py:37, service name -> [failures, open_until]
    pc,                \* per caller of safe_post: "idle", "posting", "sleeping", "returned"
    req,               \* per caller: the arguments of the call in progress
    attempt,           \* per caller: the loop variable of line 100
    last_error,        \* per caller: the local of line 99
    resp,              \* per caller: what the last call returned
    posts,             \* per caller: how many times the call in progress has
                       \* called client.post (line 102) so far
    ws_pc,             \* voice session handler: the await it is suspended at
    inbox,             \* messages the client has sent and the handler has not received
    client,            \* counts of what the environment has done so far (the
                       \* bounds of the model are on these)
    session,           \* the session record in the store (redis_session.py)
    speaking,          \* voice_ws.py:112
    silence_counter,   \* voice_ws.py:113
    tts_playing,       \* voice_ws.py:115
    tts_cancel_event,  \* voice_ws.py:116: None, or an asyncio.Event clear or set
    turn,              \* locals of the pipeline of the utterance in progress
    events,            \* the messages sent to the client, in order, since the
                       \* handler received the frame that began the last utterance
                       \* (none once the handler has left its loop)
    utt_frames,        \* history of the utterance, from speech start until its
                       \* STT request has returned: the speech frames received,
                       \* and the number of well-formed frames received
    oi_pc,             \* orchestrate_interaction (voice mode): the stage whose
                       \* safe_post it awaits, or "idle"
    oi,                \* orchestrate_interaction: the stages called and what they
                       \* returned, and the result of the last interaction
    chat_pc,           \* per caller of orchestrate_interaction in chat mode: the
                       \* stage whose safe_post it awaits, "idle" or "returned"
    chat,              \* per caller: the locals of the chat-mode call and its result
    llm1_context_cache,  \* service.py:40, cache key -> context (None: no entry)
    computed,          \* per cache key, how many LLM1 results were stored (line 164)
    cm,                \* a ConversationManager and the one conversation it
                       \* stores (conversation/manager.py)
    conversation_history,  \* AIService.conversation_history (ai_service.py:35)
    appended,          \* how many messages were added to each history so far,
                       \* and how many storage faults the conversation has seen
    store,             \* the Redis keys session:<id> (utils/redis_session.py):
                       \* the JSON text of each and the time it expires
    written,           \* per session id, the last set_session or delete_session
    got                \* what the last get_session returned, and for which id

cbvars == <<now, circuit_breakers, pc, req, attempt, last_error, resp, posts>>

wsvars == <<ws_pc, inbox, client, session, speaking, silence_counter, tts_playing,
            tts_cancel_event, turn, events, utt_frames>>

oivars == <<oi_pc, oi>>

chatvars == <<chat_pc, chat, llm1_context_cache, computed>>

histvars == <<cm, conversation_history, appended>>

storevars == <<store, written, got>>

\* What the actions of one component leave alone.
notcb == <<wsvars, oivars, chatvars, histvars, storevars>>
notws == <<cbvars, oivars, chatvars, histvars, storevars>>
notoi == <<wsvars, chatvars, histvars, storevars>>
notchat == <<wsvars, oivars, histvars, storevars>>
nothist == <<cbvars, wsvars, oivars, chatvars, storevars>>
notstore == <<circuit_breakers, pc, req, attempt, last_error, resp, posts,
              wsvars, oivars, chatvars, histvars>>

vars == <<now, circuit_breakers, pc, req, attempt, last_error, resp, posts,
          ws_pc, inbox, client, session, speaking, silence_counter, tts_playing,
          tts_cancel_event, turn, events, utt_frames, oi_pc, oi,
          chat_pc, chat, llm1_context_cache, computed,
          cm, conversation_history, appended, store, written, got>>

(***************************************************************************)
(* Bounds of the model.                                                    *)
(***************************************************************************)
NumCallers == 2     \* concurrent safe_post calls (sessions sharing the registry)
MaxTime    == 45    \* the clock stops advancing here
ClockStep  == 15    \* seconds that pass in one Tick

Callers == 1..NumCallers

(***************************************************************************)
(* Program constants.                                                      *)
(***************************************************************************)
CB_THRESHOLD == 3    \* service.py:116
CB_COOLDOWN  == 30   \* service.py:117
HTTP_OK      == 200  \* service.py:105
RETRIES      == 2    \* service.py:87, the default every call site uses
CB_OPEN_STATUS == 503   \* service.py:96
FALLBACK_STATUS == 500  \* service.py:129

None == "None"

Services == {"llm1", "llm2", "stt", "tts"}

\* A URL is modelled by the set of service markers that occur in it as
\* substrings; safe_post looks at nothing else of it.
LLM1_URL  == {"llm1"}    \* http://llm1_service:8001/generate-context
LLM2_URL  == {"llm2"}    \* http://llm2_service:8002/generate-response
STT_URL   == {"stt"}     \* http://stt_service:8003/speech-to-text
TTS_URL   == {"tts"}     \* http://tts_service:8004/text-to-speech
LOCAL_URL == {}          \* http://localhost:8003/speech-to-text (USE_DOCKER off)

Urls == {LLM1_URL, LLM2_URL, STT_URL, TTS_URL, LOCAL_URL}


\* One breaker record for every service.
ServiceName_Shared(url) == IF url = {} THEN None ELSE "llm1"

\* service.py:88-92
ServiceName(url) ==
    IF "llm1" \in url THEN "llm1"
    ELSE IF "llm2" \in url THEN "llm2"
    ELSE IF "stt" \in url THEN "stt"
    ELSE IF "tts" \in url THEN "tts"
    ELSE None

\* The fallbacks callers pass: the default None, or a dict.
Fallbacks == {None, "fallback-dict"}
EmptyDict == "{}"

\* The calls the modelled callers make: to the STT service with the fallback
\* dict of the call site (service.py:189), and to a URL that names no service
\* with the default fallback.
CallArgs ==
    {[url |-> STT_URL, fallback |-> "fallback-dict", retries |-> RETRIES],
     [url |-> LOCAL_URL, fallback |-> None, retries |-> RETRIES]}

\* What one client.post can come to: a response with a status, or an exception.
Statuses == {200, 503}
Outcomes == [exc : {FALSE}, status : Statuses] \cup {[exc |-> TRUE, status |-> 0]}

\* The values of last_error and error_details: None, the dict of line 110
\* ("http": status and body), of line 113 ("exception": message) or of line 96
\* ("circuit_open": status and message).
NoError == [kind |-> "none", status |-> 0]

NoResp == [kind |-> "none", status_code |-> 0, json |-> None, error_details |-> [kind |-> "none", status |-> 0]]
NoReq  == [url |-> {}, fallback |-> None, retries |-> 0]

\* service.py:37
InitBreakers == [s \in Services |-> [failures |-> 0, open_until |-> 0]]

\* The open check with the comparison off by one: open at now = open_until.
CircuitOpen_Inclusive(cb, service_name, t) ==
    /\ service_name # None
    /\ cb[service_name].open_until >= t

\* service.py:94, the open check
CircuitOpen(cb, service_name, t) ==
    /\ service_name # None
    /\ cb[service_name].open_until > t

\* service.py:96, the response of a call the open breaker short-circuits
CircuitOpenResp(fallback) ==
    [kind |-> "dummy",
     status_code |-> CB_OPEN_STATUS,
     json |-> IF fallback = None THEN EmptyDict ELSE fallback,
     error_details |-> [kind |-> "circuit_open", status |-> CB_OPEN_STATUS]]

\* The fallback response without the last error.
FallbackResp_NoDetails(fallback, err) ==
    [kind |-> "dummy",
     status_code |-> FALLBACK_STATUS,
     json |-> IF fallback = None THEN EmptyDict ELSE fallback,
     error_details |-> NoError]

\* service.py:126-132, the response of a call whose attempts all failed
FallbackResp(fallback, err) ==
    [kind |-> "dummy",
     status_code |-> FALLBACK_STATUS,
     json |-> IF fallback = None THEN EmptyDict ELSE fallback,
     error_details |-> err]

\* service.py:108, a 200 response is returned as it is
RealResp(status) ==
    [kind |-> "real", status_code |-> status, json |-> "body", error_details |-> NoError]

\* service.py:110 and 113
ErrorOf(outcome) ==
    IF outcome.exc
    THEN [kind |-> "exception", status |-> 0]
    ELSE [kind |-> "http", status |-> outcome.status]

\* service.py:106-107
RecordSuccess(cb, service_name) ==
    IF service_name = None THEN cb
    ELSE [cb EXCEPT ![service_name].failures = 0]

\* service.py:116
Tripped(failures) == failures >= CB_THRESHOLD

\* A breaker that starts a fresh count once its cooldown has passed.
RecordFailure_FreshAfterCooldown(cb, service_name, t) ==
    IF service_name = None THEN cb
    ELSE LET n == IF Tripped(cb[service_name].failures)
                     /\ cb[service_name].open_until <= t
                  THEN 1 ELSE cb[service_name].failures + 1
         IN  [cb EXCEPT ![service_name].failures = n,
                        ![service_name].open_until =
                            IF Tripped(n) THEN t + CB_COOLDOWN ELSE @]

\* service.py:114-117
RecordFailure(cb, service_name, t) ==
    IF service_name = None THEN cb
    ELSE LET n == cb[service_name].failures + 1
         IN  [cb EXCEPT ![service_name].failures = n,
                        ![service_name].open_until =
                            IF Tripped(n) THEN t + CB_COOLDOWN ELSE @]

\* The retry loop without its break.
BreaksLoop_Never(cb, service_name) == FALSE

\* service.py:116-119, the break out of the retry loop
BreaksLoop(cb, service_name) ==
    /\ service_name # None
    /\ Tripped(cb[service_name].failures)

\* A loop that sleeps after every failed attempt.
AnotherAttempt_Always(a, retries) == TRUE

\* service.py:120
AnotherAttempt(a, retries) == a < retries - 1

InitCB ==
    /\ now = 0
    /\ circuit_breakers = InitBreakers
    /\ pc = [p \in Callers |-> "idle"]
    /\ req = [p \in Callers |-> NoReq]
    /\ attempt = [p \in Callers |-> 0]
    /\ last_error = [p \in Callers |-> NoError]
    /\ resp = [p \in Callers |-> NoResp]
    /\ posts = [p \in Callers |-> 0]

\* Time passes (at any await of any coroutine).
Tick ==
    /\ now + ClockStep <= MaxTime
    /\ now' = now + ClockStep
    /\ UNCHANGED <<circuit_breakers, pc, req, attempt, last_error, resp, posts>>
    /\ UNCHANGED notcb

\* service.py:87-102: safe_post from its entry up to its first await.
SafePostEnter(p, url, fallback, retries) ==
    /\ req' = [req EXCEPT ![p] = [url |-> url, fallback |-> fallback, retries |-> retries]]
    /\ attempt' = [attempt EXCEPT ![p] = 0]
    /\ last_error' = [last_error EXCEPT ![p] = NoError]
    /\ IF CircuitOpen(circuit_breakers, ServiceName(url), now)
       THEN /\ resp' = [resp EXCEPT ![p] = CircuitOpenResp(fallback)]
            /\ pc' = [pc EXCEPT ![p] = "returned"]
            /\ posts' = [posts EXCEPT ![p] = 0]
       ELSE /\ resp' = [resp EXCEPT ![p] = NoResp]
            /\ pc' = [pc EXCEPT ![p] = "posting"]
            /\ posts' = [posts EXCEPT ![p] = 1]
    /\ UNCHANGED <<now, circuit_breakers>>

\* service.py:87-102: a call of safe_post by a caller of its own.
SafePostCall(p, url, fallback, retries) ==
    /\ pc[p] = "idle"
    /\ SafePostEnter(p, url, fallback, retries)
    /\ UNCHANGED notcb

\* service.py:111, `except Exception` catches whatever client.post raises for
\* a failed transport (httpx errors and timeouts derive from Exception).
Caught(outcome) == TRUE

\* service.py:102-132: client.post returns or raises; the code up to the next
\* await (the sleep of line 123) or to the return.
PostReturns(p, outcome) ==
    /\ pc[p] = "posting"
    /\ LET service_name == ServiceName(req[p].url)
       IN  IF outcome.exc /\ ~Caught(outcome)
           THEN /\ pc' = [pc EXCEPT ![p] = "raised"]
                /\ UNCHANGED <<circuit_breakers, last_error, resp>>
           ELSE IF ~outcome.exc /\ outcome.status = HTTP_OK
           THEN /\ circuit_breakers' = RecordSuccess(circuit_breakers, service_name)
                /\ resp' = [resp EXCEPT ![p] = RealResp(outcome.status)]
                /\ pc' = [pc EXCEPT ![p] = "returned"]
                /\ UNCHANGED last_error
           ELSE LET cb == RecordFailure(circuit_breakers, service_name, now)
                    err == ErrorOf(outcome)
                IN  /\ circuit_breakers' = cb
                    /\ last_error' = [last_error EXCEPT ![p] = err]
                    /\ IF ~BreaksLoop(cb, service_name)
                          /\ AnotherAttempt(attempt[p], req[p].retries)
                       THEN /\ pc' = [pc EXCEPT ![p] = "sleeping"]
                            /\ UNCHANGED resp
                       ELSE /\ pc' = [pc EXCEPT ![p] = "returned"]
                            /\ resp' = [resp EXCEPT ![p] = FallbackResp(req[p].fallback, err)]
    /\ UNCHANGED <<now, req, attempt, posts>>
    /\ UNCHANGED notcb

\* service.py:123, 100-102: the sleep ends and the next attempt is issued.
SleepDone(p) ==
    /\ pc[p] = "sleeping"
    /\ attempt' = [attempt EXCEPT ![p] = @ + 1]
    /\ pc' = [pc EXCEPT ![p] = "posting"]
    /\ posts' = [posts EXCEPT ![p] = @ + 1]
    /\ UNCHANGED <<now, circuit_breakers, req, last_error, resp>>
    /\ UNCHANGED notcb

\* The locals of a finished call are gone.
Forget(p) ==
    /\ pc' = [pc EXCEPT ![p] = "idle"]
    /\ req' = [req EXCEPT ![p] = NoReq]
    /\ attempt' = [attempt EXCEPT ![p] = 0]
    /\ last_error' = [last_error EXCEPT ![p] = NoError]
    /\ resp' = [resp EXCEPT ![p] = NoResp]
    /\ posts' = [posts EXCEPT ![p] = 0]
    /\ UNCHANGED <<now, circuit_breakers>>

\* The caller has taken the returned response.
Collect(p) ==
    /\ pc[p] = "returned"
    /\ Forget(p)
    /\ UNCHANGED notcb

NextCB ==
    \/ Tick
    \/ \E p \in Callers : Collect(p)
    \/ \E p \in Callers, a \in CallArgs : SafePostCall(p, a.url, a.fallback, a.retries)
    \/ \E p \in Callers, outcome \in Outcomes : PostReturns(p, outcome)
    \/ \E p \in Callers : SleepDone(p)

(***************************************************************************)
(* The WebSocket voice session (orchestrator/voice_ws.py).                 *)
(***************************************************************************)
\* Bounds of the session model.
FrameBytes       == 3   \* bytes of one VAD frame in the model (960 in vad.py:9)
MaxSpeechFrames  == 3   \* speech frames the client sends in a session
MaxMalformed     == 1   \* wrong-length frames the client sends in a session
MaxInbox         == 1   \* frames sent and not yet received
MaxChunks        == 2   \* chunks of one TTS stream
MaxSttOk         == 1   \* STT requests of a session that are answered 200
MaxIdleSilence   == 2   \* silence frames counted while no utterance is in progress

max_silence_chunks == 10   \* voice_ws.py:114

\* ---- bytes, base64 ----
RECURSIVE B64Encode(_)
\* base64.b64encode: three bytes to four sextets, "=" (64) padding at the end
B64Encode(b) ==
    IF Len(b) = 0 THEN <<>>
    ELSE IF Len(b) = 1
         THEN << b[1] \div 4, (b[1] % 4) * 16, 64, 64 >>
    ELSE IF Len(b) = 2
         THEN << b[1] \div 4, (b[1] % 4) * 16 + b[2] \div 16, (b[2] % 16) * 4, 64 >>
    ELSE << b[1] \div 4, (b[1] % 4) * 16 + b[2] \div 16,
            (b[2] % 16) * 4 + b[3] \div 64, b[3] % 64 >>
         \o B64Encode(SubSeq(b, 4, Len(b)))

RECURSIVE B64Decode(_)
\* base64.b64decode
B64Decode(c) ==
    IF Len(c) < 4 THEN <<>>
    ELSE (<< c[1] * 4 + c[2] \div 16 >>
          \o (IF c[3] = 64 THEN <<>> ELSE << (c[2] % 16) * 16 + c[3] \div 4 >>)
          \o (IF c[3] = 64 \/ c[4] = 64 THEN <<>> ELSE << (c[3] % 4) * 64 + c[4] >>))
         \o B64Decode(SubSeq(c, 5, Len(c)))

RECURSIVE Concat(_)
\* The bytes of a sequence of frames, one after the other.
Concat(frames) ==
    IF frames = <<>> THEN <<>> ELSE Head(frames) \o Concat(Tail(frames))

\* ---- frames and the VAD ----
\* The frames the client sends: speech frames (two different ones in turn), a
\* silence frame, and a frame one byte short.
SpeechFrameA   == [i \in 1..FrameBytes |-> 200 + i]
SpeechFrameB   == [i \in 1..FrameBytes |-> 130 + 7 * i]
SilenceFrame   == [i \in 1..FrameBytes |-> 0]
MalformedFrame == [i \in 1..(FrameBytes - 1) |-> 255]
ClientFrame(kind, n) ==
    IF kind = "speech" THEN (IF n % 2 = 0 THEN SpeechFrameA ELSE SpeechFrameB)
    ELSE IF kind = "silence" THEN SilenceFrame
    ELSE MalformedFrame
FrameKinds == {"speech", "silence", "malformed"}

\* webrtcvad.Vad.is_speech, vad.py:15: an external classifier, here by the
\* first sample's level.
WebrtcIsSpeech(pcm_bytes) == pcm_bytes[1] >= 128

\* A VAD that takes frames of any length.
VadRaises_Never(pcm_bytes) == FALSE

\* vad.py:13, the length check of StreamingVAD.is_speech
VadRaises(pcm_bytes) == Len(pcm_bytes) # FrameBytes

\* vad.py:11-15, 36-37
is_speech(audio_chunk) == WebrtcIsSpeech(audio_chunk)

\* ---- events ----
Ev(type, arg) == [type |-> type, arg |-> arg]
MSG_TYPE_VAD_STATE == "vad_state"
MSG_TYPE_TRANSCRIPT_FINAL == "transcript_final"
MSG_TYPE_LLM2_FINAL == "llm2_final"
MSG_TYPE_TTS_CHUNK == "tts_chunk"
MSG_TYPE_TTS_END == "tts_end"
MSG_TYPE_BARGE_IN == "barge_in"
MSG_TYPE_GREETING == "greeting"
MSG_TYPE_ERROR == "error"

\* ---- the session record ----
NoSession == [present |-> FALSE, buffer |-> <<>>, history |-> <<>>,
              character_details |-> None, llm1_context |-> None]
\* voice_ws.py:76-86
NewSession == [present |-> TRUE, buffer |-> <<>>, history |-> <<>>,
               character_details |-> None, llm1_context |-> None]

NoFrames == [speech |-> <<>>, received |-> 0, last_speech |-> 0]

NoTurn == [audio_b64 |-> <<>>, transcript |-> None, llm2_text |-> None,
           chunks_total |-> 0, chunks_left |-> 0]

\* What the downstream services of the voice session can answer.
Transcripts == {"", "hello"}
Replies     == {"", "hi there"}
SttOutcomes  == {[exc |-> TRUE, status |-> 0, text |-> None]}
                \cup {[exc |-> FALSE, status |-> 503, text |-> None]}
                \cup [exc : {FALSE}, status : {200}, text : Transcripts]
Llm2Outcomes == {[exc |-> TRUE, status |-> 0, text |-> None]}
                \cup {[exc |-> FALSE, status |-> 503, text |-> None]}
                \cup [exc : {FALSE}, status : {200}, text : Replies]
TtsOutcomes  == {[exc |-> TRUE, status |-> 0, chunks |-> 0]}
                \cup {[exc |-> FALSE, status |-> 503, chunks |-> 0]}
                \cup [exc : {FALSE}, status : {200}, chunks : 0..MaxChunks]

InitWS ==
    /\ ws_pc = "await_init"
    /\ inbox = <<>>
    /\ client = [speech |-> 0, malformed |-> 0, stt_ok |-> 0, stt_failed |-> 0,
                 idle_silence |-> 0, gone |-> FALSE, init |-> "none"]
    /\ session = NewSession
    /\ speaking = FALSE
    /\ silence_counter = 0
    /\ tts_playing = FALSE
    /\ tts_cancel_event = None
    /\ turn = NoTurn
    /\ events = <<>>
    /\ utt_frames = NoFrames

\* A handler that ends without deleting its record.
Cleanup_NoDelete(deleted) ==
    /\ session' = session
    /\ ws_pc' = "closed"

\* voice_ws.py:265-272, the finally block: delete_session removes the record
\* and the handler returns ("closed"), or delete_session raises (the store
\* cannot be reached) and the handler ends with that exception ("failed").
Cleanup(deleted) ==
    IF deleted
    THEN /\ session' = NoSession
         /\ ws_pc' = "closed"
    ELSE /\ session' = session
         /\ ws_pc' = "failed"

\* The handler is over.
Terminated == {"closed", "failed"}

\* The locals of the handler are gone when it ends.
Release ==
    /\ speaking' = FALSE
    /\ silence_counter' = 0
    /\ tts_playing' = FALSE
    /\ tts_cancel_event' = None
    /\ turn' = NoTurn
    /\ utt_frames' = NoFrames

\* A handler that takes any first message for an init message.
ReceiveInit_Unchecked(valid) ==
    /\ ws_pc = "await_init"
    /\ session' = [session EXCEPT !.character_details = "character",
                                  !.llm1_context = "system-prompt"]
    /\ events' = Append(events, Ev(MSG_TYPE_GREETING, "greeting"))
    /\ ws_pc' = "recv"
    /\ client' = [client EXCEPT !.init = IF valid THEN "valid" ELSE "invalid"]
    /\ UNCHANGED <<inbox, speaking, silence_counter, tts_playing,
                   tts_cancel_event, turn, utt_frames>>
    /\ UNCHANGED notws

\* voice_ws.py:88-110: the first message.  `valid` is the outcome of lines
\* 91-92 (the text parses as JSON, is an object, its type is "init" and it has
\* a character_details key); client.init records which kind the client sent.
ReceiveInit(valid) ==
    /\ ws_pc = "await_init"
    /\ IF valid
       THEN /\ session' = [session EXCEPT !.character_details = "character",
                                          !.llm1_context = "system-prompt"]
            /\ events' = Append(events, Ev(MSG_TYPE_GREETING, "greeting"))
            /\ ws_pc' = "recv"
       ELSE /\ events' = Append(events, Ev(MSG_TYPE_ERROR, "Invalid INIT"))
            /\ \E deleted \in BOOLEAN : Cleanup(deleted)
    /\ client' = [client EXCEPT !.init = IF valid THEN "valid" ELSE "invalid"]
    /\ UNCHANGED <<inbox, speaking, silence_counter, tts_playing,
                   tts_cancel_event, turn, utt_frames>>
    /\ UNCHANGED notws

\* utt_frames records the frames of the utterance in progress as they are
\* received: the speech frames, the number of frames, and the position of the
\* last speech frame among them.
\* The client sends one binary frame.  `midstream` records whether the frame
\* was sent while a reply's TTS chunks were being streamed, and `left` how many
\* chunks of the stream were still to come then.
Send(kind) ==
    /\ ws_pc \notin {"await_init"} \cup Terminated
    /\ ~client.gone
    /\ inbox' = Append(inbox, [type |-> "bytes",
                               bytes |-> ClientFrame(kind, client.speech),
                               midstream |-> (ws_pc = "tts_stream" /\ tts_playing),
                               left |-> IF ws_pc = "tts_stream" /\ tts_playing
                                        THEN turn.chunks_left ELSE 0])
    /\ client' = IF kind = "malformed" THEN [client EXCEPT !.malformed = @ + 1]
                 ELSE IF kind = "speech" THEN [client EXCEPT !.speech = @ + 1]
                 ELSE client
    /\ UNCHANGED <<ws_pc, session, speaking, silence_counter, tts_playing,
                   tts_cancel_event, turn, events, utt_frames>>
    /\ UNCHANGED notws

\* A client that sends any frames, within the bounds of the model.
ClientSend(kind) ==
    /\ Len(inbox) < MaxInbox
    /\ kind = "malformed" => client.malformed < MaxMalformed
    /\ kind = "speech" => client.speech < MaxSpeechFrames
    /\ Send(kind)

\* The client closes the connection.
ClientDisconnect ==
    /\ ws_pc \notin {"await_init"} \cup Terminated
    /\ ~client.gone
    /\ inbox' = Append(inbox, [type |-> "disconnect", bytes |-> <<>>,
                               midstream |-> FALSE, left |-> 0])
    /\ client' = [client EXCEPT !.gone = TRUE]
    /\ UNCHANGED <<ws_pc, session, speaking, silence_counter, tts_playing,
                   tts_cancel_event, turn, events, utt_frames>>
    /\ UNCHANGED notws

\* A handler that also takes messages while a pipeline is in flight.
Receiving_Anytime == ws_pc \in {"recv", "stt", "llm2", "tts_open", "tts_stream"}

\* voice_ws.py:118-120: the handler takes a message at the top of its loop
\* only, when the handling of the message before it is over.
Receiving == ws_pc = "recv"

\* voice_ws.py:124-126, 265-272: the disconnect message ends the loop.
ReceiveDisconnect ==
    /\ Receiving
    /\ inbox # <<>> /\ Head(inbox).type = "disconnect"
    /\ inbox' = Tail(inbox)
    /\ \E deleted \in BOOLEAN : Cleanup(deleted)
    /\ Release
    /\ events' = <<>>
    /\ UNCHANGED client
    /\ UNCHANGED notws

\* voice_ws.py:119-123, 265-272: receive() raises (a transport error with no
\* message); the loop is left by the break.
ReceiveRaises ==
    /\ Receiving
    /\ inbox = <<>>
    /\ \E deleted \in BOOLEAN : Cleanup(deleted)
    /\ Release
    /\ events' = <<>>
    /\ UNCHANGED <<inbox, client>>
    /\ UNCHANGED notws

\* voice_ws.py:137-142: the events barge-in sends and its effect on the flags.
BargeIn(speech_detected) == tts_playing /\ speech_detected

\* The stored buffer replaced by the chunk instead of extended by it.
AppendChunk_Overwrite(buffer, audio_chunk) == B64Encode(audio_chunk)

\* voice_ws.py:146-148: the stored buffer with the chunk appended.
AppendChunk(buffer, audio_chunk) == B64Encode(B64Decode(buffer) \o audio_chunk)

\* A segmenter that keeps the silence frames of an utterance.
BufferOnSilence_Append(buffer, audio_chunk) ==
    B64Encode(B64Decode(buffer) \o audio_chunk)

\* voice_ws.py:154-164: what a silence frame does to the stored buffer while
\* the utterance goes on (nothing).
BufferOnSilence(buffer, audio_chunk) == buffer

\* A segmenter that counts silence whether or not an utterance is in progress.
CountsSilence_Always(is_speaking) == TRUE

\* voice_ws.py:155, 256: silence counts only while the user is speaking.
CountsSilence(is_speaking) == is_speaking

\* A segmenter whose silence run goes on over a speech frame.
CounterOnSpeech_Keep(counter) == counter

\* voice_ws.py:150, the silence counter after a speech frame
CounterOnSpeech(counter) == 0

\* A hand-off that leaves the audio in the stored buffer.
ClearBuffer_Keep(buffer) == buffer

\* voice_ws.py:162, session["buffer"] = ""
ClearBuffer(buffer) == <<>>

\* voice_ws.py:157
UtteranceEnds(counter) == counter >= max_silence_chunks

\* voice_ws.py:120-168: one binary frame, from receive() to the next receive()
\* or to the STT request.
ReceiveFrame ==
    /\ Receiving
    /\ inbox # <<>> /\ Head(inbox).type = "bytes"
    /\ inbox' = Tail(inbox)
    /\ LET audio_chunk == Head(inbox).bytes IN
       IF VadRaises(audio_chunk)
       THEN /\ events' = Append(events, Ev(MSG_TYPE_ERROR, "VAD error"))
            /\ UNCHANGED <<ws_pc, session, speaking, silence_counter, tts_playing,
                           tts_cancel_event, turn, utt_frames>>
       ELSE
       LET speech_detected == is_speech(audio_chunk)
           barge == BargeIn(speech_detected)
           ev0 == IF speech_detected /\ ~speaking THEN <<>> ELSE events
           ev1 == IF barge THEN Append(ev0, Ev(MSG_TYPE_BARGE_IN, "")) ELSE ev0
       IN  /\ tts_playing' = IF barge THEN FALSE ELSE tts_playing
           /\ tts_cancel_event' = IF barge /\ tts_cancel_event # None THEN "set"
                                  ELSE tts_cancel_event
           /\ IF speech_detected
              THEN /\ session' = [session EXCEPT !.buffer = AppendChunk(@, audio_chunk)]
                   /\ silence_counter' = CounterOnSpeech(silence_counter)
                   /\ speaking' = TRUE
                   /\ events' = IF ~speaking
                                THEN Append(ev1, Ev(MSG_TYPE_VAD_STATE, "true"))
                                ELSE ev1
                   /\ utt_frames' = IF ~speaking
                                    THEN [speech |-> <<audio_chunk>>, received |-> 1,
                                          last_speech |-> 1]
                                    ELSE [speech |-> Append(utt_frames.speech, audio_chunk),
                                          received |-> utt_frames.received + 1,
                                          last_speech |-> utt_frames.received + 1]
                   /\ UNCHANGED <<ws_pc, turn>>
              ELSE IF ~CountsSilence(speaking)
              THEN /\ events' = ev1
                   /\ UNCHANGED <<ws_pc, session, speaking, silence_counter, turn, utt_frames>>
              ELSE IF ~UtteranceEnds(silence_counter + 1)
              THEN /\ silence_counter' = silence_counter + 1
                   /\ session' = [session EXCEPT !.buffer = BufferOnSilence(@, audio_chunk)]
                   /\ utt_frames' = [utt_frames EXCEPT !.received = @ + 1]
                   /\ events' = ev1
                   /\ UNCHANGED <<ws_pc, speaking, turn>>
              ELSE LET audio_bytes == B64Decode(BufferOnSilence(session.buffer, audio_chunk))
                   IN  /\ speaking' = FALSE
                       /\ events' = Append(ev1, Ev(MSG_TYPE_VAD_STATE, "false"))
                       /\ session' = [session EXCEPT !.buffer = ClearBuffer(@)]
                       /\ silence_counter' = 0
                       /\ utt_frames' = [utt_frames EXCEPT !.received = @ + 1]
                       /\ IF audio_bytes # <<>>
                          THEN /\ turn' = [NoTurn EXCEPT !.audio_b64 = B64Encode(audio_bytes)]
                               /\ ws_pc' = "stt"
                          ELSE UNCHANGED <<ws_pc, turn>>
    /\ LET audio_chunk == Head(inbox).bytes IN
       client' = IF VadRaises(audio_chunk) THEN client
                 ELSE IF is_speech(audio_chunk) THEN [client EXCEPT !.idle_silence = 0]
                 ELSE IF ~speaking /\ client.idle_silence < MaxIdleSilence
                      THEN [client EXCEPT !.idle_silence = @ + 1]
                 ELSE client
    /\ UNCHANGED notws

\* voice_ws.py:134, 145-153, 159-163: handling the frame calls the store or
\* the socket (a silence frame that does not end an utterance calls neither).
HandlingAwaits(audio_chunk) ==
    \/ VadRaises(audio_chunk)
    \/ is_speech(audio_chunk)
    \/ speaking /\ UtteranceEnds(silence_counter + 1)

\* voice_ws.py:89, 257-272: an exception leaves the try block: receive_text
\* raises WebSocketDisconnect before the init message, or a call of the store
\* or of the socket raises while a frame or a pipeline is being handled, out
\* of reach of the handlers inside the loop.
HandlerRaises ==
    /\ \/ ws_pc = "await_init"
       \/ ws_pc \in {"stt", "llm2", "tts_open", "tts_stream"}
       \/ /\ ws_pc = "recv" /\ inbox # <<>> /\ Head(inbox).type = "bytes"
          /\ HandlingAwaits(Head(inbox).bytes)
    /\ \E deleted \in BOOLEAN : Cleanup(deleted)
    /\ Release
    /\ inbox' = <<>>
    /\ events' = <<>>
    /\ UNCHANGED client
    /\ UNCHANGED notws

\* voice_ws.py:172-186, 250-255: the STT request returns or raises.
SttDone(o) ==
    /\ ws_pc = "stt"
    /\ client' = IF ~o.exc /\ o.status = HTTP_OK
                 THEN [client EXCEPT !.stt_ok = @ + 1, !.stt_failed = 0]
                 ELSE [client EXCEPT !.stt_failed = @ + 1]
    /\ utt_frames' = NoFrames
    /\ IF o.exc
       THEN /\ events' = Append(events, Ev(MSG_TYPE_ERROR, "STT service error"))
            /\ ws_pc' = "recv"
            /\ turn' = NoTurn
            /\ UNCHANGED session
       ELSE IF o.status = HTTP_OK
       THEN /\ events' = Append(events, Ev(MSG_TYPE_TRANSCRIPT_FINAL, o.text))
            /\ session' = [session EXCEPT !.history =
                              Append(@, [sender |-> "user", content |-> o.text])]
            /\ turn' = [turn EXCEPT !.transcript = o.text]
            /\ ws_pc' = "llm2"
       ELSE /\ events' = Append(events, Ev(MSG_TYPE_ERROR, "STT error"))
            /\ ws_pc' = "recv"
            /\ turn' = NoTurn
            /\ UNCHANGED session
    /\ UNCHANGED <<inbox, speaking, silence_counter, tts_playing, tts_cancel_event>>
    /\ UNCHANGED notws

\* The STT answers of a session, within the bounds of the model.
SttReturns(o) ==
    /\ (~o.exc /\ o.status = HTTP_OK) => client.stt_ok < MaxSttOk
    /\ SttDone(o)

\* A hand-off that starts with an event that is already set.
FreshEvent_Stale == "set"

\* voice_ws.py:220, asyncio.Event(): a new event, not set
FreshEvent == "clear"

\* voice_ws.py:200-221, 244-249: the LLM2 request returns or raises.
Llm2Returns(o) ==
    /\ ws_pc = "llm2"
    /\ IF o.exc
       THEN /\ events' = Append(events, Ev(MSG_TYPE_ERROR, "LLM2 service error"))
            /\ ws_pc' = "recv"
            /\ turn' = NoTurn
            /\ UNCHANGED <<session, tts_playing, tts_cancel_event>>
       ELSE IF o.status = HTTP_OK
       THEN /\ events' = Append(events, Ev(MSG_TYPE_LLM2_FINAL, o.text))
            /\ session' = [session EXCEPT !.history =
                              Append(@, [sender |-> "character", content |-> o.text])]
            /\ turn' = [turn EXCEPT !.llm2_text = o.text]
            /\ tts_cancel_event' = FreshEvent
            /\ tts_playing' = TRUE
            /\ ws_pc' = "tts_open"
       ELSE /\ events' = Append(events, Ev(MSG_TYPE_ERROR, "LLM2 error"))
            /\ ws_pc' = "recv"
            /\ turn' = NoTurn
            /\ UNCHANGED <<session, tts_playing, tts_cancel_event>>
    /\ UNCHANGED <<inbox, client, speaking, silence_counter, utt_frames>>
    /\ UNCHANGED notws

\* A stream whose end is not announced.
SendTtsEnd_Skip(evs) == evs

\* voice_ws.py:230, after the loop over the chunks
SendTtsEnd(evs) == Append(evs, Ev(MSG_TYPE_TTS_END, ""))

\* A TTS hand-off that ends with its event still bound.
TtsOver_KeepEvent ==
    /\ tts_playing' = FALSE
    /\ tts_cancel_event' = tts_cancel_event
    /\ turn' = NoTurn
    /\ ws_pc' = "recv"

\* A TTS hand-off that ends with the playing flag still set.
TtsOver_StillPlaying ==
    /\ tts_playing' = TRUE
    /\ tts_cancel_event' = None
    /\ turn' = NoTurn
    /\ ws_pc' = "recv"

\* voice_ws.py:237-243: the end of the TTS hand-off.
TtsOver ==
    /\ tts_playing' = FALSE
    /\ tts_cancel_event' = None
    /\ turn' = NoTurn
    /\ ws_pc' = "recv"

\* voice_ws.py:223-224, 231-236: the TTS stream opens, or fails to.
TtsOpens(o) ==
    /\ ws_pc = "tts_open"
    /\ IF o.exc
       THEN /\ events' = Append(events, Ev(MSG_TYPE_ERROR, "TTS streaming error"))
            /\ TtsOver
       ELSE IF o.status = HTTP_OK
       THEN /\ turn' = [turn EXCEPT !.chunks_total = o.chunks, !.chunks_left = o.chunks]
            /\ ws_pc' = "tts_stream"
            /\ UNCHANGED <<events, tts_playing, tts_cancel_event>>
       ELSE /\ events' = Append(events, Ev(MSG_TYPE_ERROR, "TTS error"))
            /\ TtsOver
    /\ UNCHANGED <<inbox, client, session, speaking, silence_counter, utt_frames>>
    /\ UNCHANGED notws

\* voice_ws.py:225-229: the stream yields a chunk.
TtsChunk ==
    /\ ws_pc = "tts_stream"
    /\ turn.chunks_left > 0
    /\ IF tts_cancel_event = "set"
       THEN /\ events' = SendTtsEnd(events)
            /\ TtsOver
       ELSE /\ events' = Append(events, Ev(MSG_TYPE_TTS_CHUNK, "audio"))
            /\ turn' = [turn EXCEPT !.chunks_left = @ - 1]
            /\ UNCHANGED <<ws_pc, tts_playing, tts_cancel_event>>
    /\ UNCHANGED <<inbox, client, session, speaking, silence_counter, utt_frames>>
    /\ UNCHANGED notws

\* voice_ws.py:225, 230, 237-243: the stream is exhausted.
TtsStreamEnds ==
    /\ ws_pc = "tts_stream"
    /\ turn.chunks_left = 0
    /\ events' = SendTtsEnd(events)
    /\ TtsOver
    /\ UNCHANGED <<inbox, client, session, speaking, silence_counter, utt_frames>>
    /\ UNCHANGED notws

\* voice_ws.py:234-243: the stream raises.
TtsStreamRaises ==
    /\ ws_pc = "tts_stream"
    /\ events' = Append(events, Ev(MSG_TYPE_ERROR, "TTS streaming error"))
    /\ TtsOver
    /\ UNCHANGED <<inbox, client, session, speaking, silence_counter, utt_frames>>
    /\ UNCHANGED notws

NextWS ==
    \/ \E valid \in BOOLEAN : ReceiveInit(valid)
    \/ \E kind \in FrameKinds : ClientSend(kind)
    \/ ClientDisconnect
    \/ ReceiveDisconnect
    \/ ReceiveRaises
    \/ HandlerRaises
    \/ ReceiveFrame
    \/ \E o \in SttOutcomes : SttReturns(o)
    \/ \E o \in Llm2Outcomes : Llm2Returns(o)
    \/ \E o \in TtsOutcomes : TtsOpens(o)
    \/ TtsChunk
    \/ TtsStreamEnds
    \/ TtsStreamRaises

(***************************************************************************)
(* orchestrate_interaction in voice mode (orchestrator/service.py:186-236). *)
(* It makes its stage calls through safe_post, as caller OICaller.          *)
(***************************************************************************)
OICaller == 1

\* The stages in the order of the code, and the stage after each.
Stages == <<"stt", "llm1", "llm2", "tts">>
StageNo(stage) == CHOOSE i \in 1..Len(Stages) : Stages[i] = stage

\* service.py:189, 199, 212, 224: the URL of each stage's safe_post
StageUrl(stage) ==
    IF stage = "stt" THEN STT_URL
    ELSE IF stage = "llm1" THEN LLM1_URL
    ELSE IF stage = "llm2" THEN LLM2_URL
    ELSE TTS_URL

\* service.py:189, 199, 212, 224: the fallback dict of each stage's safe_post
\* ({"transcript": ""}, {"context": "fallback-context", "rules": {}},
\* {"response": "Sorry, something went wrong."}, {"audio_data": None})
StageFallback(stage) ==
    IF stage = "stt" THEN "fallback-dict"
    ELSE IF stage = "llm1" THEN "fallback-context-dict"
    ELSE IF stage = "llm2" THEN "fallback-response-dict"
    ELSE "fallback-audio-dict"

FALLBACK_CONTEXT == "fallback-context"
FALLBACK_RESPONSE == "Sorry, something went wrong."

\* service.py:191, 202, 215, 227: the field the stage reads from the json of a
\* fallback response.
FallbackField(stage) ==
    IF stage = "stt" THEN ""
    ELSE IF stage = "llm1" THEN FALLBACK_CONTEXT
    ELSE IF stage = "llm2" THEN FALLBACK_RESPONSE
    ELSE None

\* str.strip() on the replies of the model
Strip(text) == IF text \in {"", " "} THEN "" ELSE text

\* ---- the LLM2 service (llm2_service/service.py, llm2_service/main.py) ----
\* The content of a reply of the upstream model: null, empty, blank, or a text.
ModelReplies == {None, "", " ", "hi there"}

\* llm2_service/service.py:79 and 99, `not reply or not reply.strip()`
EmptyReply(reply) == reply = None \/ reply = "" \/ Strip(reply) = ""

\* llm2_service/service.py:101, the text and the error of the result returned
\* when the retry's reply is empty as well (the text goes on with the finish
\* reason and the token counts of the reply).
EMPTY_CONTENT_APOLOGY == "Sorry, the model could not generate a response."
EMPTY_CONTENT_ERROR == "Empty content from Azure OpenAI."

\* llm2_service/service.py:51-102: generate_response, for the content `first`
\* of the first completion and the content `second` of the completion of the
\* retry with fewer tokens (lines 82-87, made in the first pass of the loop if
\* `first` is empty).
GenerateResponse(first, second) ==
    IF EmptyReply(first)
    THEN IF ~EmptyReply(second)
         THEN [response |-> second, error |-> None]
         ELSE [response |-> EMPTY_CONTENT_APOLOGY, error |-> EMPTY_CONTENT_ERROR]
    ELSE [response |-> first, error |-> None]

\* llm2_service/main.py:52-54: the endpoint answers 200 with a body that holds
\* the response field of the result and nothing else.
GenerateResponseEndpoint(result) ==
    [status_code |-> HTTP_OK, response |-> result.response]

\* The `response` fields of the bodies the LLM2 service answers with.
Llm2ServiceBodies ==
    {GenerateResponseEndpoint(GenerateResponse(first, second)).response :
        first \in ModelReplies, second \in ModelReplies}

\* The same field in the body of a 200 response: what the service can answer.
StageBodies(stage) ==
    IF stage = "stt" THEN {"", "hello"}
    ELSE IF stage = "llm1" THEN {FALLBACK_CONTEXT, "persona"}
    ELSE IF stage = "llm2" THEN {"", " ", FALLBACK_RESPONSE} \cup Llm2ServiceBodies
    ELSE {None, "audio"}

\* A pipeline that takes whatever a stage's safe_post returns.
Usable_Always(stage, status, value) == TRUE

\* A pipeline that looks at the status of a stage's response only.
Usable_StatusOnly(stage, status, value) == status = HTTP_OK

\* service.py:193, 205, 217, 229: the negation of each stage's failure test
Usable(stage, status, value) ==
    /\ status = HTTP_OK
    /\ IF stage = "stt" THEN value # ""
       ELSE IF stage = "llm1" THEN value # FALLBACK_CONTEXT
       ELSE IF stage = "llm2"
            THEN value # "" /\ Strip(value) # "" /\ value # FALLBACK_RESPONSE
       ELSE value \notin {None, ""}

\* service.py:196, 208, 220: the response text of a turn that a stage failed.
STT_APOLOGY  == "Sorry, we could not transcribe your audio. Please try again."
LLM1_APOLOGY == "Sorry, the character could not generate context. Please try again later."
LLM2_APOLOGY == "Sorry, the character could not respond. Please try again later."

\* service.py:196, 208, 220, 232 (and 161, 180 in chat mode): the `response`
\* field of the result returned when `stage` failed; `response` is the reply
\* of LLM2, which the TTS branch (line 232) returns.
FailureResponse(stage, response) ==
    IF stage = "stt" THEN STT_APOLOGY
    ELSE IF stage = "llm1" THEN LLM1_APOLOGY
    ELSE IF stage = "llm2" THEN LLM2_APOLOGY
    ELSE response

\* An error map keyed by the component instead of the stage.
ErrorKey_Generic(stage) == "orchestrator"

\* service.py:196, 208, 220, 232 (161, 180): the key of the `error` map
ErrorKey(stage) == stage

\* The "error" field of the body of a 200 response: absent, or some value.
BodyErrors == {None, "service-error"}

\* A cause that is the default text whatever the response carries.
Cause_DefaultOnly(r, body_error) == [kind |-> "default", status |-> 0]

\* service.py:195, 207, 219, 231 (160, 179): the value under that key,
\* getattr(resp, 'error_details', None) or resp.json().get("error") or the
\* default text of the stage.  A response of the service has no error_details
\* attribute; the fallback dicts have no "error" key.
Cause(r, body_error) ==
    IF r.error_details # NoError THEN r.error_details
    ELSE IF r.kind = "real" /\ body_error # None THEN [kind |-> "body", status |-> 0]
    ELSE [kind |-> "default", status |-> 0]

NotSeen == [done |-> FALSE, status |-> 0, value |-> None, posts |-> 0]
NoInteraction == [calls |-> <<>>, seen |-> [st \in {"stt", "llm1", "llm2", "tts"} |-> NotSeen],
                  error |-> None, response |-> None, cause |-> NoError]

InitOI ==
    /\ oi_pc = "idle"
    /\ oi = NoInteraction

\* service.py:134-136, 186-189: a call in voice mode, up to the first await
\* inside the safe_post of the STT stage.
OIStart ==
    /\ oi_pc = "idle"
    /\ pc[OICaller] = "idle"
    /\ SafePostEnter(OICaller, StageUrl("stt"), StageFallback("stt"), RETRIES)
    /\ oi_pc' = "stt"
    /\ oi' = [NoInteraction EXCEPT !.calls = <<"stt">>]
    /\ UNCHANGED notoi

\* service.py:189-236: the safe_post of a stage has returned; the failure
\* test of the stage, and then either the return of the error result, or the
\* next stage's safe_post up to its first await, or the final result.
OIStageDone(body) ==
    /\ oi_pc # "idle"
    /\ pc[OICaller] = "returned"
    /\ LET stage == oi_pc
           r == resp[OICaller]
           value == IF r.kind = "real" THEN body ELSE FallbackField(stage)
           seen == [oi.seen EXCEPT ![stage] =
                       [done |-> TRUE, status |-> r.status_code, value |-> value,
                        posts |-> posts[OICaller]]]
       IN  /\ (r.kind # "real") => body = FallbackField(stage)
           /\ IF ~Usable(stage, r.status_code, value)
              THEN /\ Forget(OICaller)
                   /\ oi_pc' = "idle"
                   /\ \E body_error \in BodyErrors :
                         oi' = [oi EXCEPT !.seen = seen, !.error = ErrorKey(stage),
                                          !.response = FailureResponse(stage, oi.seen["llm2"].value),
                                          !.cause = Cause(r, body_error)]
              ELSE IF StageNo(stage) < Len(Stages)
              THEN LET next == Stages[StageNo(stage) + 1]
                   IN  /\ SafePostEnter(OICaller, StageUrl(next), StageFallback(next), RETRIES)
                       /\ oi_pc' = next
                       /\ oi' = [oi EXCEPT !.seen = seen, !.calls = Append(@, next)]
              ELSE /\ Forget(OICaller)
                   /\ oi_pc' = "idle"
                   /\ oi' = [oi EXCEPT !.seen = seen, !.error = None,
                                       !.response = oi.seen["llm2"].value]
    /\ UNCHANGED notoi

\* The caller has taken the result of the interaction.
OICollect ==
    /\ oi_pc = "idle"
    /\ oi # NoInteraction
    /\ oi' = NoInteraction
    /\ UNCHANGED <<oi_pc, cbvars>>
    /\ UNCHANGED notoi

(***************************************************************************)
(* orchestrate_interaction in chat mode (orchestrator/service.py:137-185), *)
(* called by any number of requests at a time (orchestrator/main.py:79).   *)
(***************************************************************************)
\* The session ids of the chat requests: main.py:79-84 passes none, so that
\* the requests for one character share the key json.dumps(character_details).
ChatSessionIds == {None}
CHARACTER_JSON == "character-json"

\* service.py:141
CacheKey(session_id) == IF session_id # None THEN session_id ELSE CHARACTER_JSON

CacheKeys == {CacheKey(session_id) : session_id \in ChatSessionIds}

ChatStages == <<"llm1", "llm2">>

MISSING_INPUT == "Missing user input or character details."
INVALID_MODE == "Invalid mode"

\* A call that goes on whatever fields it was given.
MissingFields_Never(complete) == FALSE

\* service.py:138, `not user_input or not character_details`; `complete` says
\* that both arguments of the call are non-empty.
MissingFields(complete) == ~complete

NoChat == [request |-> None, key |-> None, context |-> None, calls |-> <<>>,
           seen |-> [st \in {"llm1", "llm2"} |-> NotSeen],
           error |-> None, response |-> None, cause |-> NoError]

InitChat ==
    /\ chat_pc = [c \in Callers |-> "idle"]
    /\ chat = [c \in Callers |-> NoChat]
    /\ llm1_context_cache = [k \in CacheKeys |-> None]
    /\ computed = [k \in CacheKeys |-> 0]

\* service.py:164
StoreContext(cache, cache_key, context) == [cache EXCEPT ![cache_key] = context]

\* The arguments of a call, as far as the validation looks at them.
Request(complete) == IF complete THEN "chat" ELSE "chat-incomplete"

\* service.py:134-137, 186, 237-239: a call whose mode is neither "chat" nor
\* "voice" returns the error result of line 239.
InvalidModeCall(c) ==
    /\ chat_pc[c] = "idle"
    /\ pc[c] = "idle"
    /\ chat_pc' = [chat_pc EXCEPT ![c] = "returned"]
    /\ chat' = [chat EXCEPT ![c] =
                   [NoChat EXCEPT !.request = "other-mode",
                                  !.response = INVALID_MODE,
                                  !.error = "orchestrator",
                                  !.cause = [kind |-> "orchestrator", status |-> 0]]]
    /\ UNCHANGED <<cbvars, llm1_context_cache, computed>>
    /\ UNCHANGED notchat

\* service.py:134-153, 165-173: a call in chat mode, up to its first await:
\* the return of line 139, or the cache hit and the safe_post of LLM2, or the
\* cache miss and the safe_post of LLM1.
ChatStart(c, session_id, complete) ==
    /\ chat_pc[c] = "idle"
    /\ pc[c] = "idle"
    /\ LET cache_key == CacheKey(session_id) IN
       IF MissingFields(complete)
       THEN /\ chat_pc' = [chat_pc EXCEPT ![c] = "returned"]
            /\ chat' = [chat EXCEPT ![c] =
                           [NoChat EXCEPT !.request = Request(complete),
                                          !.response = MISSING_INPUT,
                                          !.error = "orchestrator",
                                          !.cause = [kind |-> "orchestrator", status |-> 0]]]
            /\ UNCHANGED cbvars
       ELSE IF llm1_context_cache[cache_key] # None
       THEN /\ SafePostEnter(c, StageUrl("llm2"), StageFallback("llm2"), RETRIES)
            /\ chat_pc' = [chat_pc EXCEPT ![c] = "llm2"]
            /\ chat' = [chat EXCEPT ![c] =
                           [NoChat EXCEPT !.request = Request(complete),
                                          !.key = cache_key,
                                          !.context = llm1_context_cache[cache_key],
                                          !.calls = <<"llm2">>]]
       ELSE /\ SafePostEnter(c, StageUrl("llm1"), StageFallback("llm1"), RETRIES)
            /\ chat_pc' = [chat_pc EXCEPT ![c] = "llm1"]
            /\ chat' = [chat EXCEPT ![c] =
                           [NoChat EXCEPT !.request = Request(complete),
                                          !.key = cache_key, !.calls = <<"llm1">>]]
    /\ UNCHANGED <<llm1_context_cache, computed>>
    /\ UNCHANGED notchat

\* service.py:153-184: the safe_post of a stage has returned; the failure
\* test of the stage and the return of the error result, or (LLM1) the store
\* of the context and the safe_post of LLM2 up to its first await, or (LLM2)
\* the return of the reply.
ChatStageDone(c, body) ==
    /\ chat_pc[c] \in {"llm1", "llm2"}
    /\ pc[c] = "returned"
    /\ LET stage == chat_pc[c]
           r == resp[c]
           value == IF r.kind = "real" THEN body ELSE FallbackField(stage)
           seen == [chat[c].seen EXCEPT ![stage] =
                       [done |-> TRUE, status |-> r.status_code, value |-> value,
                        posts |-> posts[c]]]
       IN  /\ (r.kind # "real") => body = FallbackField(stage)
           /\ IF ~Usable(stage, r.status_code, value)
              THEN /\ Forget(c)
                   /\ chat_pc' = [chat_pc EXCEPT ![c] = "returned"]
                   /\ \E body_error \in BodyErrors :
                         chat' = [chat EXCEPT ![c].seen = seen,
                                              ![c].error = ErrorKey(stage),
                                              ![c].response = FailureResponse(stage, None),
                                              ![c].cause = Cause(r, body_error)]
                   /\ UNCHANGED <<llm1_context_cache, computed>>
              ELSE IF stage = "llm1"
              THEN /\ llm1_context_cache' =
                          StoreContext(llm1_context_cache, chat[c].key, value)
                   /\ computed' = [computed EXCEPT ![chat[c].key] = @ + 1]
                   /\ SafePostEnter(c, StageUrl("llm2"), StageFallback("llm2"), RETRIES)
                   /\ chat_pc' = [chat_pc EXCEPT ![c] = "llm2"]
                   /\ chat' = [chat EXCEPT ![c].seen = seen, ![c].context = value,
                                            ![c].calls = Append(@, "llm2")]
              ELSE /\ Forget(c)
                   /\ chat_pc' = [chat_pc EXCEPT ![c] = "returned"]
                   /\ chat' = [chat EXCEPT ![c].seen = seen, ![c].error = None,
                                            ![c].response = value]
                   /\ UNCHANGED <<llm1_context_cache, computed>>
    /\ UNCHANGED notchat

\* The caller has taken the result of the chat call.
ChatCollect(c) ==
    /\ chat_pc[c] = "returned"
    /\ chat_pc' = [chat_pc EXCEPT ![c] = "idle"]
    /\ chat' = [chat EXCEPT ![c] = NoChat]
    /\ UNCHANGED <<cbvars, llm1_context_cache, computed>>
    /\ UNCHANGED notchat

\* What LLM1 answers to the chat calls: the contexts of two answers differ.
ChatBodies(stage) ==
    IF stage = "llm1" THEN StageBodies(stage) \cup {"persona-b"}
    ELSE StageBodies(stage)

\* Concurrent chat requests for one character, overlapping within one tick of
\* the clock.
NextChat ==
    \/ \E c \in Callers, session_id \in ChatSessionIds, complete \in BOOLEAN :
          ChatStart(c, session_id, complete)
    \/ \E c \in Callers : InvalidModeCall(c)
    \/ \E c \in Callers, outcome \in Outcomes : PostReturns(c, outcome)
    \/ \E c \in Callers : SleepDone(c)
    \/ \E c \in Callers, stage \in {"llm1", "llm2"} :
          \E body \in ChatBodies(stage) \cup {FallbackField(stage)} :
             chat_pc[c] = stage /\ ChatStageDone(c, body)
    \/ \E c \in Callers : ChatCollect(c)

\* One request at a time, in either mode.
NextOI ==
    \/ Tick
    \/ chat_pc[OICaller] = "idle" /\ OIStart
    \/ OICollect
    \/ \E outcome \in Outcomes : PostReturns(OICaller, outcome)
    \/ SleepDone(OICaller)
    \/ \E stage \in {"stt", "llm1", "llm2", "tts"} :
          \E body \in StageBodies(stage) \cup {FallbackField(stage)} :
             oi_pc = stage /\ OIStageDone(body)
    \/ \E session_id \in ChatSessionIds, complete \in BOOLEAN :
          oi_pc = "idle" /\ oi = NoInteraction /\ ChatStart(OICaller, session_id, complete)
    \/ oi_pc = "idle" /\ oi = NoInteraction /\ InvalidModeCall(OICaller)
    \/ \E stage \in {"llm1", "llm2"} :
          \E body \in StageBodies(stage) \cup {FallbackField(stage)} :
             chat_pc[OICaller] = stage /\ ChatStageDone(OICaller, body)
    \/ ChatCollect(OICaller)

(***************************************************************************)
(* The two trimmed histories: ConversationManager.add_message              *)
(* (conversation/manager.py:79-130) and AIService.add_to_history           *)
(* (ai_service.py:174-186).                                                *)
(***************************************************************************)
MaxAppends == 22   \* messages added to each history
MaxFaults  == 1    \* failed or expired storage operations of the conversation

\* conversation/manager.py:47, the cap of a stored conversation
max_history == 20
\* ai_service.py:176-177, the cap of AIService.conversation_history
AI_MAX_HISTORY == 10

\* The n-th message added to a history: the callers alternate.
Message(n) == [content |-> n, sender |-> IF n % 2 = 1 THEN "user" ELSE "character"]

\* Python's s[-n:] for n > 0
LastN(seq, n) ==
    IF Len(seq) <= n THEN seq ELSE SubSeq(seq, Len(seq) - n + 1, Len(seq))

\* A trim that keeps the oldest entries.
TrimHistory_KeepOldest(messages, cap) ==
    IF Len(messages) > cap THEN SubSeq(messages, 1, cap) ELSE messages

\* manager.py:114-115 and ai_service.py:176-177
TrimHistory(messages, cap) ==
    IF Len(messages) > cap THEN LastN(messages, cap) ELSE messages

InitHist ==
    /\ cm = [constructed |-> FALSE, use_redis |-> FALSE, present |-> FALSE,
             messages |-> <<>>]
    /\ conversation_history = <<>>
    /\ appended = [cm |-> 0, ai |-> 0, faults |-> 0]

\* manager.py:17-48: the constructor; Redis is used when it can be reached.
NewManager(use_redis) ==
    /\ ~cm.constructed
    /\ cm' = [cm EXCEPT !.constructed = TRUE, !.use_redis = use_redis]
    /\ UNCHANGED <<conversation_history, appended>>
    /\ UNCHANGED nothist

\* manager.py:79-120: add_message.  With Redis, _get_conversation answers None
\* when the read fails (186-198), and _store_conversation swallows a failed
\* write (170-184); a conversation that is not found starts empty (90-99).
AddMessage(get_ok, store_ok) ==
    /\ cm.constructed
    /\ appended.cm < MaxAppends
    /\ (~get_ok \/ ~store_ok) => (cm.use_redis /\ appended.faults < MaxFaults)
    /\ LET found == cm.present /\ get_ok
           messages == IF found THEN cm.messages ELSE <<>>
           message == Message(appended.cm + 1)
           trimmed == TrimHistory(Append(messages, message), max_history)
       IN  /\ cm' = IF store_ok
                    THEN [cm EXCEPT !.present = TRUE, !.messages = trimmed]
                    ELSE cm
           /\ appended' = [appended EXCEPT
                              !.cm = @ + 1,
                              !.faults = IF (cm.present /\ ~get_ok) \/ ~store_ok
                                         THEN @ + 1 ELSE @]
    /\ UNCHANGED conversation_history
    /\ UNCHANGED nothist

\* manager.py:175-179: Redis drops the conversation when its ttl has passed.
Expire ==
    /\ cm.use_redis /\ cm.present
    /\ appended.faults < MaxFaults
    /\ cm' = [cm EXCEPT !.present = FALSE, !.messages = <<>>]
    /\ appended' = [appended EXCEPT !.faults = @ + 1]
    /\ UNCHANGED conversation_history
    /\ UNCHANGED nothist

\* ai_service.py:179-186 and 174-177: add_to_history
AddToHistory ==
    /\ appended.ai < MaxAppends
    /\ conversation_history' =
          TrimHistory(Append(conversation_history, Message(appended.ai + 1)),
                      AI_MAX_HISTORY)
    /\ appended' = [appended EXCEPT !.ai = @ + 1]
    /\ UNCHANGED cm
    /\ UNCHANGED nothist

NextHist ==
    \/ \E use_redis \in BOOLEAN : NewManager(use_redis)
    \/ \E get_ok, store_ok \in BOOLEAN : AddMessage(get_ok, store_ok)
    \/ Expire
    \/ AddToHistory

(***************************************************************************)
(* The session store (utils/redis_session.py).                             *)
(***************************************************************************)
NumSessions    == 2      \* session ids
StoreClockStep == 1800   \* seconds that pass in one StoreTick
MaxStoreTime   == 5400   \* the clock of the store stops advancing here

\* redis_session.py:21, ex=3600
SESSION_TTL == 3600

SessionIds == 1..NumSessions

\* A record is a dict with string keys, here the sequence of its items in
\* insertion order; the values are strings, integers and None.
StrVal(str) == [t |-> "str", s |-> str, n |-> 0]
IntVal(int) == [t |-> "int", s |-> "", n |-> int]
NullVal == [t |-> "null", s |-> "", n |-> 0]
Item(key, value) == [k |-> key, v |-> value]

\* The records written: the empty dict, the record of the test
\* (test_redis_session.py:13) and a record like the handler's.
Records ==
    { <<>>,
      << Item("foo", StrVal("bar")), Item("num", IntVal(42)) >>,
      << Item("buffer", StrVal("")), Item("vad", NullVal) >> }

\* dict equality: the same items, in whatever order
DictEq(d, e) ==
    {d[i] : i \in 1..Len(d)} = {e[i] : i \in 1..Len(e)}

\* JSON text as the sequence of its tokens.
Tok(kind, str, int) == [tok |-> kind, s |-> str, n |-> int]

RECURSIVE JsonItems(_)
JsonItems(d) ==
    IF d = <<>> THEN <<>>
    ELSE << Tok("key", Head(d).k, 0), Tok(Head(d).v.t, Head(d).v.s, Head(d).v.n) >>
         \o JsonItems(Tail(d))

\* json.dumps of a record
JsonDumps(d) == << Tok("{", "", 0) >> \o JsonItems(d) \o << Tok("}", "", 0) >>

RECURSIVE ParseItems(_)
ParseItems(toks) ==
    IF Len(toks) < 2 THEN <<>>
    ELSE << Item(toks[1].s, [t |-> toks[2].tok, s |-> toks[2].s, n |-> toks[2].n]) >>
         \o ParseItems(SubSeq(toks, 3, Len(toks)))

\* A parser that loses the last item of the dict.
JsonLoads_Truncating(text) == ParseItems(SubSeq(text, 2, Len(text) - 3))

\* json.loads of the text of a record
JsonLoads(text) == ParseItems(SubSeq(text, 2, Len(text) - 1))

NoKey == [present |-> FALSE, data |-> <<>>, expires |-> 0]
NotWritten == [op |-> "none", d |-> <<>>, at |-> 0]
NotFound == [found |-> FALSE, value |-> <<>>]

\* Redis GET: the value of a key that exists and has not expired, else nil.
RedisGet(key, t) ==
    IF key.present /\ t < key.expires THEN key.data ELSE <<>>

\* redis_session.py:12-17
GetSession(session_id, t) ==
    LET data == RedisGet(store[session_id], t)
    IN  IF data # <<>>
        THEN [found |-> TRUE, value |-> JsonLoads(data)]
        ELSE NotFound

InitStore ==
    /\ store = [id \in SessionIds |-> NoKey]
    /\ written = [id \in SessionIds |-> NotWritten]
    /\ got = [id |-> 0, found |-> FALSE, value |-> <<>>]

\* redis_session.py:19-21
SetSession(session_id, session_data) ==
    /\ store' = [store EXCEPT ![session_id] =
                    [present |-> TRUE, data |-> JsonDumps(session_data),
                     expires |-> now + SESSION_TTL]]
    /\ written' = [written EXCEPT ![session_id] =
                      [op |-> "set", d |-> session_data, at |-> now]]
    /\ UNCHANGED <<now, got>>
    /\ UNCHANGED notstore

\* redis_session.py:23-25
DeleteSession(session_id) ==
    /\ store' = [store EXCEPT ![session_id] = NoKey]
    /\ written' = [written EXCEPT ![session_id] =
                      [op |-> "delete", d |-> <<>>, at |-> now]]
    /\ UNCHANGED <<now, got>>
    /\ UNCHANGED notstore

\* redis_session.py:12-17: a call of get_session and what it returns.
GetSessionCall(session_id) ==
    /\ got' = [id |-> session_id,
               found |-> GetSession(session_id, now).found,
               value |-> GetSession(session_id, now).value]
    /\ UNCHANGED <<now, store, written>>
    /\ UNCHANGED notstore

\* Time passes for the store.
StoreTick ==
    /\ now + StoreClockStep <= MaxStoreTime
    /\ now' = now + StoreClockStep
    /\ UNCHANGED <<store, written, got>>
    /\ UNCHANGED notstore

NextStore ==
    \/ StoreTick
    \/ \E id \in SessionIds, d \in Records : SetSession(id, d)
    \/ \E id \in SessionIds : DeleteSession(id)
    \/ \E id \in SessionIds : GetSessionCall(id)

Init == InitCB /\ InitWS /\ InitOI /\ InitChat /\ InitHist /\ InitStore

SpecChat == Init /\ [][NextChat]_vars

SpecStore == Init /\ [][NextStore]_vars

SpecHist == Init /\ [][NextHist]_vars

SpecOI == Init /\ [][NextOI]_vars

SpecCB == Init /\ [][NextCB]_vars

\* service.py:102, 123: client.post is called with timeout=10.0 and returns or
\* raises within it, and asyncio.sleep(wait_time) returns: a call that awaits
\* either is resumed.
FairCB ==
    \A p \in Callers :
        WF_vars((\E outcome \in Outcomes : PostReturns(p, outcome)) \/ SleepDone(p))

\* Concurrent calls to one service, which share its breaker record.
NextCBLive ==
    \/ Tick
    \/ \E p \in Callers : Collect(p)
    \/ \E p \in Callers : SafePostCall(p, STT_URL, "fallback-dict", RETRIES)
    \/ \E p \in Callers, outcome \in Outcomes : PostReturns(p, outcome)
    \/ \E p \in Callers : SleepDone(p)

SpecCBLive == Init /\ [][NextCBLive]_vars /\ FairCB

SpecWS == Init /\ [][NextWS]_vars

(***************************************************************************)
(* A long conversation: a client that speaks MaxTurns utterances of one    *)
(* speech frame each, and services that answer every request with 200.     *)
(***************************************************************************)
MaxTurns == 11   \* utterances of the long conversation

\* The client sends a speech frame when the session is idle, and silence
\* frames otherwise.
ClientTalks(kind) ==
    /\ kind \in {"speech", "silence"}
    /\ Len(inbox) < MaxInbox
    /\ kind = "speech" => (client.speech < MaxTurns /\ ~speaking /\ inbox = <<>>)
    /\ kind = "silence" => speaking
    /\ Send(kind)

NextTurns ==
    \/ ReceiveInit(TRUE)
    \/ \E kind \in FrameKinds : ClientTalks(kind)
    \/ ReceiveFrame
    \/ SttDone([exc |-> FALSE, status |-> HTTP_OK, text |-> "hello"])
    \/ Llm2Returns([exc |-> FALSE, status |-> HTTP_OK, text |-> "hi there"])
    \/ TtsOpens([exc |-> FALSE, status |-> HTTP_OK, chunks |-> 1])
    \/ TtsChunk
    \/ TtsStreamEnds

SpecTurns == Init /\ [][NextTurns]_vars

(***************************************************************************)
(* The resilient client and the breaker registry: claims.                  *)
(***************************************************************************)
\* The service of caller p's call in progress.
SvcOf(p) == ServiceName(req[p].url)

\* In this step caller p enters safe_post.
Starts(p) == pc[p] = "idle" /\ pc'[p] # "idle"

\* In this step caller p issues a network attempt (line 102).
Issues(p) == pc[p] # "posting" /\ pc'[p] = "posting"

\* In this step an attempt of caller p ends in a 200 response.
Succeeds(p) ==
    /\ pc[p] = "posting" /\ pc'[p] = "returned"
    /\ resp'[p].kind = "real" /\ resp'[p].status_code = HTTP_OK

\* In this step an attempt of caller p fails (non-200 or exception).
Fails(p) == pc[p] = "posting" /\ pc'[p] # "posting" /\ ~Succeeds(p)

C1_Step ==
    /\ \A p \in Callers :
          (Starts(p) /\ ServiceName(req'[p].url) # None) =>
             LET X == ServiceName(req'[p].url)
             IN  /\ (now < circuit_breakers[X].open_until) =>
                        /\ ~Issues(p)
                        /\ pc'[p] = "returned"
                        /\ resp'[p].status_code # HTTP_OK
                 /\ (now >= circuit_breakers[X].open_until) => Issues(p)
    /\ \A X \in Services :
          (/\ circuit_breakers'[X].failures > circuit_breakers[X].failures
           /\ circuit_breakers'[X].failures >= CB_THRESHOLD)
          => circuit_breakers'[X].open_until = now + CB_COOLDOWN

\* C1: a failure that brings the count of failures since the last 200 to 3 or
\* more opens the breaker until now + 30; a call to X that starts while
\* now < open_until returns a non-200 response without a network attempt; a
\* call that starts at now >= open_until issues a network attempt.
C1_FastFail == [][C1_Step]_vars

\* A call was short-circuited during the cooldown, and after the cooldown
\* another call to the same service is on the network.
C1_Witness ==
    \E p, q \in Callers :
        /\ pc[p] = "returned" /\ resp[p].error_details.kind = "circuit_open"
        /\ pc[q] = "posting" /\ SvcOf(q) = "stt" /\ attempt[q] = 0
        /\ circuit_breakers["stt"].failures >= CB_THRESHOLD
        /\ circuit_breakers["stt"].open_until > 0
        /\ circuit_breakers["stt"].open_until <= now

\* C2: no network attempt for service X is issued while the breaker of X is
\* open, the retry attempts of a call already past the open check included.
C2_NoAttemptWhileOpen ==
    [][\A p \in Callers :
          (Issues(p) /\ ServiceName(req'[p].url) # None) =>
             ~(now < circuit_breakers[ServiceName(req'[p].url)].open_until)]_vars

\* C3: right after a 200 response to a call to X, failures[X] = 0 and the
\* breaker of X is not open.
C3_SuccessResetsBreaker ==
    [][\A p \in Callers :
          (Succeeds(p) /\ SvcOf(p) # None) =>
             /\ circuit_breakers'[SvcOf(p)].failures = 0
             /\ ~(now' < circuit_breakers'[SvcOf(p)].open_until)]_vars

\* C4: a failed attempt that raises failures[X] to 3 or more sets
\* open_until[X] = now + 30 and ends the call: no sleep, no further attempt.
C4_TripStopsRetrying ==
    [][\A p \in Callers :
          (/\ Fails(p) /\ SvcOf(p) # None
           /\ circuit_breakers'[SvcOf(p)].failures >= CB_THRESHOLD) =>
             /\ circuit_breakers'[SvcOf(p)].open_until = now + CB_COOLDOWN
             /\ pc'[p] = "returned"]_vars

\* A call whose first attempt tripped the breaker has returned with one
\* attempt of its budget of two unused.
C4_Witness ==
    \E p \in Callers :
        /\ pc[p] = "returned" /\ resp[p].kind = "dummy"
        /\ last_error[p] # NoError
        /\ attempt[p] = 0 /\ AnotherAttempt(attempt[p], req[p].retries)
        /\ circuit_breakers["stt"].failures >= CB_THRESHOLD
        /\ circuit_breakers["stt"].open_until = now + CB_COOLDOWN

\* C5: safe_post never raises; it returns a response, and a call none of whose
\* attempts returned 200 returns a non-200 response whose json() is the
\* fallback ({} for the default None) and whose error_details is the error of
\* the last failed attempt (the circuit-open cause when no attempt was made).
C5_NeverRaises ==
    \A p \in Callers :
        /\ pc[p] # "raised"
        /\ pc[p] = "returned" =>
              /\ resp[p].kind \in {"real", "dummy"}
              /\ resp[p].kind = "real" => resp[p].status_code = HTTP_OK
              /\ resp[p].kind = "dummy" =>
                    /\ resp[p].status_code # HTTP_OK
                    /\ resp[p].json = (IF req[p].fallback = None THEN EmptyDict
                                        ELSE req[p].fallback)
                    /\ IF last_error[p] = NoError
                       THEN resp[p].error_details.kind = "circuit_open"
                       ELSE /\ resp[p].error_details = last_error[p]
                            /\ last_error[p].kind \in {"http", "exception"}

\* A call returned the fallback after its second attempt raised an exception.
C5_Witness ==
    \E p \in Callers :
        /\ pc[p] = "returned" /\ resp[p].kind = "dummy"
        /\ attempt[p] = RETRIES - 1
        /\ resp[p].error_details.kind = "exception"
        /\ resp[p].json = "fallback-dict"

(***************************************************************************)
(* The voice session: claims.                                              *)
(***************************************************************************)
PipelineStates == {"stt", "llm2", "tts_open", "tts_stream"}

\* The events of one type in the window.
EventsOf(type) == SelectSeq(events, LAMBDA e : e.type = type)

\* The audio of the STT request in flight.
SttAudio == B64Decode(turn.audio_b64)

\* C6: in a voice session three consecutive failed STT calls leave the STT
\* breaker open, and no STT request of the session is on the network while
\* the breaker is open: the session's calls go through the breaker registry.
C6_VoiceSessionUsesBreaker ==
    /\ client.stt_failed >= CB_THRESHOLD =>
          CircuitOpen(circuit_breakers, "stt", now)
    /\ ws_pc = "stt" => ~CircuitOpen(circuit_breakers, "stt", now)

\* A speech frame that the client sent while a reply was being streamed.
MidstreamSpeech(m) ==
    /\ m.type = "bytes" /\ m.midstream
    /\ ~VadRaises(m.bytes) /\ is_speech(m.bytes)

\* In this step the handler classifies a speech frame while tts_playing is set.
DetectsBargeIn ==
    /\ ws_pc = "recv" /\ inbox # <<>> /\ inbox' = Tail(inbox)
    /\ Head(inbox).type = "bytes"
    /\ ~VadRaises(Head(inbox).bytes) /\ is_speech(Head(inbox).bytes)
    /\ tts_playing

\* C7: once a speech frame sent while a reply is being streamed has reached
\* the server, the reply's tts_chunk events stop (at most the one chunk then
\* in progress is still sent); the barge-in is one barge_in event, clears
\* tts_playing and puts the session into the user-speaking state with the
\* frame in the buffer of the new utterance.
C7_BargeIn ==
    [][/\ (/\ ws_pc = "tts_stream" /\ ws_pc' = "tts_stream"
           /\ inbox # <<>> /\ MidstreamSpeech(Head(inbox)))
          => Head(inbox).left - turn'.chunks_left <= 1
       /\ DetectsBargeIn =>
             /\ Len(SelectSeq(events', LAMBDA e : e.type = MSG_TYPE_BARGE_IN)) = 1
             /\ ~tts_playing'
             /\ speaking'
             /\ B64Decode(session'.buffer) = Head(inbox).bytes]_vars

\* C8: while the pipeline of an ended utterance is in flight, the handler can
\* receive and classify the next frame the client has sent.
C8_ReceivesDuringPipeline ==
    (ws_pc \in PipelineStates /\ inbox # <<>> /\ Head(inbox).type = "bytes")
        => ENABLED ReceiveFrame

\* C9: an utterance of N >= 1 speech frames ended by the tenth consecutive
\* silence frame gives one vad_state(false) and one STT request, whose audio
\* is the N speech frames one after the other, N frames of bytes long.
C9_SegmenterHandOff ==
    /\ \A i \in 1..Len(EventsOf(MSG_TYPE_VAD_STATE)) :
          EventsOf(MSG_TYPE_VAD_STATE)[i].arg = (IF i = 1 THEN "true" ELSE "false")
    /\ Len(EventsOf(MSG_TYPE_VAD_STATE)) <= 2
    /\ ws_pc = "stt" =>
          /\ Len(EventsOf(MSG_TYPE_VAD_STATE)) = 2
          /\ Len(utt_frames.speech) >= 1
          /\ utt_frames.received >= Len(utt_frames.speech) + max_silence_chunks
          /\ SttAudio = Concat(utt_frames.speech)
          /\ Len(SttAudio) = Len(utt_frames.speech) * FrameBytes
          /\ ~speaking /\ silence_counter = 0 /\ session.buffer = <<>>

\* Two speech frames and ten silence frames were received, and the STT
\* request with the two speech frames is in flight.
C9_Witness ==
    /\ ws_pc = "stt"
    /\ utt_frames.speech = <<SpeechFrameA, SpeechFrameB>>
    /\ utt_frames.received = 2 + max_silence_chunks
    /\ SttAudio = SpeechFrameA \o SpeechFrameB

\* C10 as claimed: the buffer of an utterance holds every frame received
\* since speech start, the silence frames included.
C10_SilenceRetained ==
    /\ (speaking /\ ws_pc = "recv") =>
          Len(B64Decode(session.buffer)) = utt_frames.received * FrameBytes
    /\ ws_pc = "stt" => Len(SttAudio) = utt_frames.received * FrameBytes

\* C10 as amended: no silence frame is appended; during an utterance the
\* buffer holds exactly the speech frames received since speech start, and
\* the audio handed to STT is shorter than the frames received by the
\* silence frames among them.
C10_SilenceDropped ==
    /\ (speaking /\ ws_pc = "recv") =>
          /\ B64Decode(session.buffer) = Concat(utt_frames.speech)
          /\ utt_frames.received >= Len(utt_frames.speech) + silence_counter
    /\ ws_pc = "stt" =>
          Len(SttAudio) <= (utt_frames.received - max_silence_chunks) * FrameBytes

\* An utterance in progress with a pause inside it and silence at its end:
\* speech, silence, speech, silence.
C10_Witness ==
    /\ speaking /\ ws_pc = "recv"
    /\ Len(utt_frames.speech) = 2
    /\ utt_frames.received = 4
    /\ silence_counter = 1
    /\ Len(B64Decode(session.buffer)) = 2 * FrameBytes

\* In this step the handler receives a well-formed silence frame while no
\* utterance is in progress.
IdleSilence ==
    /\ ws_pc = "recv" /\ ~speaking
    /\ inbox # <<>> /\ inbox' = Tail(inbox)
    /\ Head(inbox).type = "bytes"
    /\ ~VadRaises(Head(inbox).bytes) /\ ~is_speech(Head(inbox).bytes)

\* C11: a silence frame received while idle sends no event (no vad_state in
\* particular), starts no pipeline call, and leaves the stored buffer, the
\* speaking flag and the silence counter as they were.
C11_IdleSilenceNoOp ==
    [][IdleSilence =>
          /\ events' = events
          /\ ws_pc' = "recv" /\ turn' = turn
          /\ session' = session
          /\ speaking' = speaking
          /\ silence_counter' = silence_counter]_vars

\* Two silence frames were received after the greeting and the session is
\* still idle, with nothing sent and nothing buffered.
C11_Witness ==
    /\ client.idle_silence >= 2
    /\ ws_pc = "recv" /\ ~speaking /\ silence_counter = 0
    /\ events = <<Ev(MSG_TYPE_GREETING, "greeting")>>
    /\ session.buffer = <<>>

\* The events of a turn with the given transcript, reply and number of chunks.
ExpectedTurn(transcript, reply, k) ==
    << Ev(MSG_TYPE_VAD_STATE, "true"), Ev(MSG_TYPE_VAD_STATE, "false"),
       Ev(MSG_TYPE_TRANSCRIPT_FINAL, transcript), Ev(MSG_TYPE_LLM2_FINAL, reply) >>
    \o [i \in 1..k |-> Ev(MSG_TYPE_TTS_CHUNK, "audio")]
    \o << Ev(MSG_TYPE_TTS_END, "") >>

\* In this step the TTS stream of a turn ends, after at least one chunk and
\* without an error event since the utterance began.
TurnCompletes ==
    /\ ws_pc = "tts_stream" /\ ws_pc' = "recv"
    /\ turn.chunks_total >= 1 /\ turn.chunks_left = 0
    /\ SelectSeq(events', LAMBDA e : e.type = MSG_TYPE_ERROR) = <<>>

Blank(text) == text = ""

\* C13: a 200 answer of LLM2 with an empty reply ends the turn with an error
\* event; no TTS request is made for an empty reply.
C13_EmptyReplyNotSynthesised ==
    /\ ws_pc \in {"tts_open", "tts_stream"} => ~Blank(turn.llm2_text)
    /\ \A i \in 1..Len(events) :
          (events[i].type = MSG_TYPE_LLM2_FINAL /\ Blank(events[i].arg))
             => (i < Len(events) /\ events[i + 1].type = MSG_TYPE_ERROR)

\* C15: a 200 answer of STT with an empty transcript ends the turn: no user
\* turn with the empty transcript is stored and no LLM2 or TTS request is made
\* for it.
C15_EmptyTranscriptEndsTurn ==
    /\ ws_pc \in {"llm2", "tts_open", "tts_stream"} => turn.transcript # ""
    /\ \A i \in 1..Len(session.history) :
          session.history[i].sender = "user" => session.history[i].content # ""

\* C16: the stored history of the session never ends with the user turn of an
\* exchange whose assistant turn is not stored: every state of the stored
\* record that a reader can see holds whole pairs, user turn then assistant
\* turn.
C16_HistoryPairAtomic ==
    session.present =>
       /\ Len(session.history) % 2 = 0
       /\ \A i \in 1..Len(session.history) :
             session.history[i].sender = (IF i % 2 = 1 THEN "user" ELSE "character")

\* C20: once the handler has returned, by whatever path (invalid init,
\* disconnect, receive error, exception out of the loop), the store holds no
\* record of the session: every path runs delete_session.
C20_CleanupOnEveryPath ==
    /\ ws_pc = "closed" => ~session.present
    /\ ws_pc \notin Terminated => session.present

\* The handler has returned without the client having disconnected (it was
\* ended by an exception), in a session that had completed an STT call, and
\* the record is gone.
C20_Witness ==
    /\ ws_pc = "closed"
    /\ ~client.gone
    /\ client.stt_ok = 1
    /\ session = NoSession

\* C18: the history of a voice session (stored in the session record and sent
\* to LLM2) never grows beyond a fixed cap (20 entries, the largest cap the
\* program applies to a history), the oldest entries being evicted.
C18_SessionHistoryBounded ==
    Len(session.history) <= max_history

(***************************************************************************)
(* orchestrate_interaction: claims.                                        *)
(***************************************************************************)
\* The result of stage st of the interaction, once it has returned.
SeenOk(st) == oi.seen[st].done /\ oi.seen[st].status = HTTP_OK

\* C14: in voice mode the stages are called in the order STT, LLM1, LLM2, TTS,
\* one at a time; LLM1 only after STT returned 200 with a non-empty
\* transcript, LLM2 only after LLM1 returned 200 with a context other than
\* the fallback, TTS only after LLM2 returned 200 with a reply that is not
\* blank and not the fallback text; after a failed stage no stage is called.
C14_StageOrder ==
    /\ Len(oi.calls) <= Len(Stages)
    /\ \A i \in 1..Len(oi.calls) : oi.calls[i] = Stages[i]
    /\ \A i \in 1..Len(Stages) :
          oi.seen[Stages[i]].done =>
             /\ i <= Len(oi.calls)
             /\ (i < Len(oi.calls) \/ oi_pc = "idle")
    /\ oi_pc # "idle" =>
          /\ oi.calls # <<>> /\ oi_pc = oi.calls[Len(oi.calls)]
          /\ ~oi.seen[oi_pc].done
    /\ Len(oi.calls) >= 2 =>
          SeenOk("stt") /\ oi.seen["stt"].value # ""
    /\ Len(oi.calls) >= 3 =>
          SeenOk("llm1") /\ oi.seen["llm1"].value # FALLBACK_CONTEXT
    /\ Len(oi.calls) >= 4 =>
          /\ SeenOk("llm2")
          /\ oi.seen["llm2"].value \notin {"", " ", FALLBACK_RESPONSE}
    /\ (oi_pc = "idle" /\ oi.error \in {"stt", "llm1", "llm2"}) =>
          Len(oi.calls) = StageNo(oi.error)

\* An interaction has gone through STT and LLM1 and ended at LLM2, which
\* answered 200 with a reply of blanks: TTS was not called.
C14_Witness ==
    /\ oi_pc = "idle"
    /\ oi.calls = <<"stt", "llm1", "llm2">>
    /\ oi.seen["llm2"].status = HTTP_OK /\ oi.seen["llm2"].value = " "
    /\ oi.error = "llm2"

(***************************************************************************)
(* The trimmed histories: claims.                                          *)
(***************************************************************************)
\* The last k of the first n messages added, in the order they were added.
MostRecent(n, cap) ==
    LET k == IF n < cap THEN n ELSE cap
    IN  [i \in 1..k |-> Message(n - k + i)]

\* C17: after any number of add_message calls on a conversation (no storage
\* fault in between) its stored history is the most recent min(n, 20)
\* messages in the order they were added, and after any number of
\* add_to_history calls the history of the AIService is the most recent
\* min(n, 10): never longer than the cap, the oldest message the one dropped.
C17_HistoryTrimming ==
    /\ Len(cm.messages) <= max_history
    /\ appended.faults = 0 => cm.messages = MostRecent(appended.cm, max_history)
    /\ Len(conversation_history) <= AI_MAX_HISTORY
    /\ conversation_history = MostRecent(appended.ai, AI_MAX_HISTORY)

\* Both histories are two messages past their caps: messages 1 and 2 are
\* gone and message 3 is the oldest one kept.
C17_Witness ==
    /\ appended = [cm |-> max_history + 2, ai |-> AI_MAX_HISTORY + 2, faults |-> 0]
    /\ Len(cm.messages) = max_history /\ cm.messages[1] = Message(3)
    /\ Len(conversation_history) = AI_MAX_HISTORY
    /\ conversation_history[1] = Message(3)

(***************************************************************************)
(* The session store: claims.                                              *)
(***************************************************************************)
\* What a get_session for the id must return now, by the last write of the id.
RoundTrip(id) ==
    LET w == written[id]
        g == GetSession(id, now)
    IN  /\ (w.op = "set" /\ now < w.at + SESSION_TTL) =>
              (g.found /\ DictEq(g.value, w.d))
        /\ w.op \in {"delete", "none"} => ~g.found

C21_HandshakeRejected ==
    client.init = "invalid" =>
        /\ ws_pc \in Terminated
        /\ events = <<Ev(MSG_TYPE_ERROR, "Invalid INIT")>>
        /\ EventsOf(MSG_TYPE_GREETING) = <<>>
        /\ inbox = <<>> /\ utt_frames = NoFrames
        /\ client.speech = 0 /\ client.malformed = 0
        /\ ~speaking /\ silence_counter = 0
        /\ turn = NoTurn /\ ~tts_playing
        /\ client.stt_ok = 0 /\ client.stt_failed = 0
        /\ session.history = <<>> /\ session.buffer = <<>>
        /\ session.character_details = None

\* An invalid first message was handled: the error was sent and the handler
\* has returned with its record deleted.
C21_Witness ==
    /\ client.init = "invalid"
    /\ ws_pc = "closed"
    /\ events = <<Ev(MSG_TYPE_ERROR, "Invalid INIT")>>
    /\ ~session.present

(***************************************************************************)
(* orchestrate_interaction: claims about its result.                       *)
(***************************************************************************)
\* The stages of `stages` that were called and failed their test
\* (service.py:159, 178, 193, 205, 217, 229), by position.
FailedAt(stages, seen) ==
    {i \in 1..Len(stages) :
        /\ seen[stages[i]].done
        /\ ~Usable(stages[i], seen[stages[i]].status, seen[stages[i]].value)}

\* Every stage of `stages` that was called has succeeded, and the last one was.
AllSucceeded(stages, seen, calls) ==
    /\ \A i \in 1..Len(calls) :
          /\ seen[calls[i]].done
          /\ Usable(calls[i], seen[calls[i]].status, seen[calls[i]].value)
    /\ calls # <<>> /\ calls[Len(calls)] = stages[Len(stages)]

First(S) == CHOOSE i \in S : \A j \in S : i <= j

\* The result `r` of an interaction over `stages` names its first failed stage.
TypedError(stages, r) ==
    LET failed == FailedAt(stages, r.seen) IN
    /\ failed # {} => r.error = stages[First(failed)]
    /\ failed = {} => r.error = None
    /\ r.error = None <=> AllSucceeded(stages, r.seen, r.calls)

\* C22: a turn of orchestrate_interaction (voice or chat mode) that a stage
\* failed returns an error map whose one key is the name of the first stage
\* that failed (stt, llm1, llm2 or tts); the error is None exactly when every
\* stage the turn had to run succeeded.
C22_TypedStageError ==
    /\ (oi_pc = "idle" /\ oi.calls # <<>>) => TypedError(Stages, oi)
    /\ \A c \in Callers :
          (chat_pc[c] = "returned" /\ chat[c].calls # <<>>) =>
              TypedError(ChatStages, chat[c])

\* A voice turn whose STT, LLM1 and LLM2 stages succeeded and whose TTS stage
\* failed after real requests has returned the error keyed "tts".
C22_Witness ==
    /\ oi_pc = "idle"
    /\ oi.calls = <<"stt", "llm1", "llm2", "tts">>
    /\ oi.seen["tts"].status = FALLBACK_STATUS
    /\ oi.error = "tts"

\* The apology texts of the stages.
Apologies == {STT_APOLOGY, LLM1_APOLOGY, LLM2_APOLOGY}

\* C23: in every result of orchestrate_interaction that reports the failure
\* of a stage (STT, LLM1, LLM2 or TTS), the response field is a fixed apology
\* text and never the text a model produced.
C23_ApologyInResponse ==
    /\ (oi_pc = "idle" /\ oi.error \in {"stt", "llm1", "llm2", "tts"}) =>
          /\ oi.response \in Apologies
          /\ oi.response # oi.seen["llm2"].value
    /\ \A c \in Callers :
          (chat_pc[c] = "returned" /\ chat[c].error \in {"llm1", "llm2"}) =>
              chat[c].response \in Apologies

\* The stage an interaction over `stages` failed at was short-circuited by
\* the open breaker exactly when the cause is the circuit-open one.
CircuitOpenCause(r) ==
    r.error \in {"stt", "llm1", "llm2", "tts"} =>
        /\ r.seen[r.error].posts = 0 =>
              r.cause = [kind |-> "circuit_open", status |-> CB_OPEN_STATUS]
        /\ r.seen[r.error].posts > 0 => r.cause.kind # "circuit_open"

\* C30: a stage whose safe_post was short-circuited by the open breaker (no
\* request was sent) is reported with the cause {status 503, "Circuit open"},
\* and a failure reported after one or more requests were sent (a 503 answer
\* of the service included) never has that cause.
C30_CircuitOpenDistinguishable ==
    /\ oi_pc = "idle" => CircuitOpenCause(oi)
    /\ \A c \in Callers : chat_pc[c] = "returned" => CircuitOpenCause(chat[c])

\* A voice turn ended at its LLM1 stage, which the open breaker
\* short-circuited, after an STT stage that took two requests.
C30_Witness ==
    /\ oi_pc = "idle"
    /\ oi.error = "llm1"
    /\ oi.seen["llm1"].posts = 0
    /\ oi.seen["stt"].posts = 2
    /\ oi.cause.kind = "circuit_open"

\* C24: for one cache key, whatever the interleaving of the chat calls, at
\* most one LLM1 answer is stored in llm1_context_cache.
C24_ContextComputedOnce ==
    \A k \in CacheKeys : computed[k] <= 1

(***************************************************************************)
(* The voice session: claims about frames and failures.                    *)
(***************************************************************************)
\* The handler takes a frame of the wrong length from its socket and goes on.
MalformedReceived ==
    /\ ws_pc = "recv" /\ ws_pc' \notin Terminated
    /\ inbox # <<>> /\ inbox' = Tail(inbox)
    /\ Head(inbox).type = "bytes"
    /\ Len(Head(inbox).bytes) # FrameBytes

\* C25: a frame of the wrong length is dropped: the handler reports a VAD
\* error and stays in its receive loop, and the segmenter (speaking, silence
\* counter, stored buffer), the history and the TTS flags are as they were.
C25_MalformedFrameDropped ==
    [][MalformedReceived =>
          /\ ws_pc' = "recv"
          /\ events' = Append(events, Ev(MSG_TYPE_ERROR, "VAD error"))
          /\ speaking' = speaking
          /\ silence_counter' = silence_counter
          /\ session' = session
          /\ tts_playing' = tts_playing
          /\ tts_cancel_event' = tts_cancel_event
          /\ turn' = turn]_vars

\* A frame of the wrong length was dropped in the middle of an utterance:
\* the user is still speaking and the speech received so far is buffered.
C25_Witness ==
    /\ ws_pc = "recv"
    /\ speaking
    /\ events # <<>> /\ events[Len(events)] = Ev(MSG_TYPE_ERROR, "VAD error")
    /\ B64Decode(session.buffer) = SpeechFrameA

\* C26: the classifier returns a boolean for every frame the handler gives
\* it, false for a frame of the wrong length, and never raises.
C26_VadFailsClosed ==
    [][(/\ ws_pc = "recv" /\ inbox # <<>> /\ inbox' = Tail(inbox)
        /\ Head(inbox).type = "bytes")
          => /\ ~VadRaises(Head(inbox).bytes)
             /\ Len(Head(inbox).bytes) # FrameBytes => ~is_speech(Head(inbox).bytes)]_vars

\* The pipeline of a turn is left for the receive loop before the reply has
\* been streamed to its end: a stage has failed.
TurnAborted ==
    /\ ws_pc \in PipelineStates /\ ws_pc' = "recv"
    /\ ~(events' # <<>> /\ events'[Len(events')].type = MSG_TYPE_TTS_END)

\* C27: when the STT, LLM2 or TTS stage of a turn fails (an answer other than
\* 200, or an exception) and the transport is up, the handler sends an error
\* event, keeps the connection and its record, and is back in the receive
\* loop with the segmenter idle (not speaking, silence counter 0, stored
\* buffer empty, nothing playing); the utterance that follows is segmented
\* and sent to STT like any other.
C27_FailureAbortsTurnOnly ==
    /\ [][TurnAborted =>
             /\ events' = Append(events, events'[Len(events')])
             /\ events'[Len(events')].type = MSG_TYPE_ERROR
             /\ session'.present
             /\ ~speaking' /\ silence_counter' = 0
             /\ session'.buffer = <<>>
             /\ ~tts_playing' /\ tts_cancel_event' = None
             /\ turn' = NoTurn]_vars
    /\ []((ws_pc = "stt" /\ client.stt_failed > 0) =>
             /\ SttAudio = Concat(utt_frames.speech)
             /\ SttAudio # <<>>)

\* After a turn that the STT stage failed, the next utterance (one speech
\* frame, the second of the session) has reached the STT stage.
C27_Witness ==
    /\ ws_pc = "stt"
    /\ client.stt_failed = 1
    /\ client.speech = 2
    /\ SttAudio = SpeechFrameB

(***************************************************************************)
(* safe_post: claims about one call and about the other breakers.          *)
(***************************************************************************)
\* Caller p's call goes to sleep after a failed attempt.
SleepStarts(p) == pc[p] = "posting" /\ pc'[p] = "sleeping"

\* C28: one call of safe_post calls client.post at most `retries` times and
\* returns; it sleeps only after a failed attempt that another attempt
\* follows: not after its last attempt, and not after the failure that
\* tripped the breaker.
C28_BoundedAttempts ==
    /\ [](\A p \in Callers : pc[p] # "idle" => posts[p] <= req[p].retries)
    /\ [][\A p \in Callers :
            /\ SleepStarts(p) =>
                  /\ posts[p] < req[p].retries
                  /\ ~BreaksLoop(circuit_breakers', ServiceName(req[p].url))
            /\ (pc[p] = "sleeping" /\ pc'[p] # "sleeping") =>
                  /\ pc'[p] = "posting"
                  /\ posts'[p] = posts[p] + 1]_vars
    /\ \A p \in Callers : (pc[p] \in {"posting", "sleeping"}) ~> (pc[p] = "returned")

\* A call has returned the fallback after `retries` requests, the last of
\* them answered with an error status.
C28_Witness ==
    \E p \in Callers :
        /\ pc[p] = "returned"
        /\ posts[p] = req[p].retries
        /\ resp[p].status_code = FALLBACK_STATUS
        /\ resp[p].error_details.kind = "http"

\* The service a URL of the program is the address of (service.py:21-24).
TargetOf(url) ==
    IF url = LLM1_URL THEN "llm1"
    ELSE IF url = LLM2_URL THEN "llm2"
    ELSE IF url = STT_URL THEN "stt"
    ELSE IF url = TTS_URL THEN "tts"
    ELSE None

\* C29: a call of safe_post to one service changes the breaker record of
\* that service only: the failures and open_until of a service change only
\* when a request to that very service has been answered, and a call is
\* short-circuited only by the open breaker of the service it is for.
C29_BreakerIsolation ==
    [][/\ \A s \in Services :
             circuit_breakers'[s] # circuit_breakers[s] =>
                \E p \in Callers :
                   /\ pc[p] = "posting" /\ pc'[p] # "posting"
                   /\ TargetOf(req[p].url) = s
       /\ \A p \in Callers :
             (resp'[p] # resp[p] /\ resp'[p].error_details.kind = "circuit_open") =>
                /\ TargetOf(req'[p].url) # None
                /\ circuit_breakers[TargetOf(req'[p].url)].open_until > now]_vars

\* While the breaker of STT is open, a chat call has had its LLM1 request
\* answered 200 at the first attempt and has gone on to LLM2.
C29_Witness ==
    /\ circuit_breakers["stt"].open_until > now
    /\ chat_pc[OICaller] = "llm2"
    /\ chat[OICaller].seen["llm1"].posts = 1
    /\ chat[OICaller].seen["llm1"].status = HTTP_OK
    /\ circuit_breakers["llm1"] = [failures |-> 0, open_until |-> 0]

(***************************************************************************)
(* orchestrate_interaction: the context cache and the validation.          *)
(***************************************************************************)
\* In this step the LLM1 stage of caller c's chat call ends in a failure: the
\* response of safe_post is not a 200 (the fallback of the failed attempts or
\* of the open breaker), or its context is the fallback context.
ContextStageFails(c) ==
    /\ chat_pc[c] = "llm1" /\ chat_pc'[c] # "llm1"
    /\ \/ resp[c].status_code # HTTP_OK
       \/ chat'[c].seen["llm1"].value = FALLBACK_CONTEXT

\* C37: a chat turn whose LLM1 call fails (non-200, open breaker or fallback
\* context) leaves llm1_context_cache as it was and returns the llm1 error
\* without calling LLM2; a chat call that finds no entry for its key calls
\* LLM1; the cache changes only by the store of the context of a 200
\* response, and no entry is ever the fallback context.
C37_FailedContextNotCached ==
    /\ [][\A c \in Callers :
             /\ ContextStageFails(c) =>
                   /\ llm1_context_cache' = llm1_context_cache
                   /\ chat_pc'[c] = "returned" /\ pc'[c] = "idle"
                   /\ chat'[c].calls = <<"llm1">>
                   /\ chat'[c].error = "llm1"
                   /\ circuit_breakers' = circuit_breakers
             /\ (/\ chat_pc[c] = "idle" /\ chat'[c].request = "chat"
                 /\ llm1_context_cache[CHARACTER_JSON] = None)
                   => /\ chat_pc'[c] = "llm1"
                      /\ chat'[c].calls = <<"llm1">>
                      /\ req'[c].url = LLM1_URL
             /\ \A k \in CacheKeys :
                   llm1_context_cache'[k] # llm1_context_cache[k] =>
                      \E d \in Callers :
                         /\ chat_pc[d] = "llm1" /\ chat[d].key = k
                         /\ resp[d].kind = "real" /\ resp[d].status_code = HTTP_OK
                         /\ llm1_context_cache'[k] = chat'[d].seen["llm1"].value]_vars
    /\ [](\A k \in CacheKeys : llm1_context_cache[k] # FALLBACK_CONTEXT)

\* A chat call has returned the llm1 error after a 200 response of LLM1 whose
\* context was the fallback context; nothing is cached and LLM2 was not called.
C37_Witness ==
    /\ chat_pc[OICaller] = "returned"
    /\ chat[OICaller].error = "llm1"
    /\ chat[OICaller].seen["llm1"].status = HTTP_OK
    /\ chat[OICaller].seen["llm1"].value = FALLBACK_CONTEXT
    /\ chat[OICaller].calls = <<"llm1">>
    /\ llm1_context_cache[CHARACTER_JSON] = None

\* In this step caller c calls orchestrate_interaction with arguments that the
\* validation rejects: chat mode with an empty field, or an unknown mode.
RejectedCall(c) ==
    /\ chat_pc[c] = "idle" /\ chat_pc'[c] # "idle"
    /\ chat'[c].request \in {"chat-incomplete", "other-mode"}

\* C38: a call in chat mode with an empty user_input or character_details, or
\* with a mode other than chat and voice, returns an error keyed
\* "orchestrator" at once: no request is made, and the breaker records and
\* the context cache are left as they were.
C38_ValidationNoSideEffects ==
    [][\A c \in Callers :
          RejectedCall(c) =>
             /\ chat_pc'[c] = "returned"
             /\ chat'[c].error = "orchestrator"
             /\ chat'[c].response =
                   (IF chat'[c].request = "other-mode" THEN INVALID_MODE ELSE MISSING_INPUT)
             /\ chat'[c].calls = <<>>
             /\ pc' = pc /\ posts' = posts /\ req' = req
             /\ circuit_breakers' = circuit_breakers
             /\ llm1_context_cache' = llm1_context_cache]_vars

\* A chat call with an empty field has returned while the cache holds a
\* context and the LLM2 breaker has counted the failed attempts of a call.
C38_Witness ==
    /\ chat_pc[OICaller] = "returned"
    /\ chat[OICaller].request = "chat-incomplete"
    /\ chat[OICaller].error = "orchestrator"
    /\ llm1_context_cache[CHARACTER_JSON] = "persona"
    /\ circuit_breakers["llm2"].failures = RETRIES

\* C40: when the upstream model gives the LLM2 service an empty or blank
\* content at the first completion and again at the retry, the LLM2 stage of
\* the orchestrator's turn fails: the call returns the llm2 error and the text
\* the service answered with is not sent on to TTS.
C40_EmptyReplyIsStageFailure ==
    \A first \in ModelReplies, second \in ModelReplies :
       (/\ EmptyReply(first) /\ EmptyReply(second)
        /\ oi.seen["llm2"].done
        /\ oi.seen["llm2"].status =
              GenerateResponseEndpoint(GenerateResponse(first, second)).status_code
        /\ oi.seen["llm2"].value =
              GenerateResponseEndpoint(GenerateResponse(first, second)).response)
          => /\ oi_pc = "idle"
             /\ oi.error = "llm2"
             /\ Len(oi.calls) < Len(Stages)

(***************************************************************************)
(* The breaker after its cooldown.                                         *)
(***************************************************************************)
\* C39: the failure count of a service goes down only to 0 and only by a 200
\* response of that service; the passing of time leaves it as it is.  So a
\* failed attempt made while the count is at or above the threshold (the
\* first call after the cooldown) opens the breaker for another 30 s and ends
\* the call without a retry, and below the threshold (after a 200) a failed
\* attempt opens the breaker only as the third of the new count.
C39_CooldownKeepsCount ==
    [][/\ \A s \in Services :
             circuit_breakers'[s].failures # circuit_breakers[s].failures =>
                \E p \in Callers :
                   /\ TargetOf(req[p].url) = s
                   /\ \/ Succeeds(p) /\ circuit_breakers'[s].failures = 0
                      \/ Fails(p) /\ circuit_breakers'[s].failures =
                                        circuit_breakers[s].failures + 1
       /\ \A p \in Callers :
             (Fails(p) /\ TargetOf(req[p].url) # None) =>
                LET s == TargetOf(req[p].url) IN
                IF circuit_breakers[s].failures + 1 >= CB_THRESHOLD
                THEN /\ circuit_breakers'[s].open_until = now + CB_COOLDOWN
                     /\ pc'[p] = "returned"
                     /\ posts'[p] = posts[p]
                ELSE circuit_breakers'[s].open_until = circuit_breakers[s].open_until]_vars

\* The cooldown of the STT breaker has passed with the count still at the
\* threshold; the one call made since then has failed at its first attempt
\* and has returned the fallback, and the breaker is open for another 30 s.
C39_Witness ==
    \E p \in Callers :
       /\ pc[p] = "returned" /\ posts[p] = 1
       /\ resp[p].status_code = FALLBACK_STATUS
       /\ \A q \in Callers \ {p} : pc[q] = "idle"
       /\ circuit_breakers["stt"].failures = CB_THRESHOLD + 1
       /\ now >= CB_COOLDOWN
       /\ circuit_breakers["stt"].open_until = now + CB_COOLDOWN

(***************************************************************************)
(* The voice session: segmenter, cancel event, buffer, order, history.     *)
(***************************************************************************)
\* In this step the handler takes a well-formed frame from the socket and
\* handles it.
ReceivesValid ==
    /\ ws_pc = "recv" /\ inbox # <<>> /\ Head(inbox).type = "bytes"
    /\ inbox' = Tail(inbox) /\ ws_pc' \notin Terminated
    /\ Len(Head(inbox).bytes) = FrameBytes

\* The events sent in this step.
SentInStep ==
    IF Len(events') >= Len(events) /\ SubSeq(events', 1, Len(events)) = events
    THEN SubSeq(events', Len(events) + 1, Len(events'))
    ELSE events'

\* The number of vad_state events with the given value sent in this step.
VadSent(value) ==
    Len(SelectSeq(SentInStep, LAMBDA ev : ev = Ev(MSG_TYPE_VAD_STATE, value)))

\* The silence frames received since the last speech frame of the utterance.
SilenceRun == utt_frames.received - utt_frames.last_speech

\* C31: over the well-formed frames of a session, vad_state(true) is sent
\* exactly on a speech frame received while idle and vad_state(false) exactly
\* on the tenth silence frame in a row received while speaking; the speaking
\* flag changes with these events only, so that they alternate, starting with
\* true; every speech frame sets the silence counter to 0.
C31_SegmenterHysteresis ==
    [][LET speech == ReceivesValid /\ WebrtcIsSpeech(Head(inbox).bytes)
           silence == ReceivesValid /\ ~WebrtcIsSpeech(Head(inbox).bytes)
       IN  /\ VadSent("true") = (IF speech /\ ~speaking THEN 1 ELSE 0)
           /\ VadSent("false") =
                 (IF silence /\ speaking /\ SilenceRun + 1 >= max_silence_chunks
                  THEN 1 ELSE 0)
           /\ VadSent("true") = 1 => (~speaking /\ speaking')
           /\ VadSent("false") = 1 => (speaking /\ ~speaking')
           /\ speaking' # speaking =>
                 (VadSent("true") + VadSent("false") = 1 \/ ws_pc' \in Terminated)
           /\ speech => silence_counter' = 0
           /\ (silence /\ speaking) =>
                 silence_counter' = (IF speaking' THEN SilenceRun + 1 ELSE 0)]_vars

\* An utterance with a pause inside it has ended: speech, one silence frame,
\* speech, and then ten silence frames in a row.
C31_Witness ==
    /\ ws_pc = "stt" /\ ~speaking
    /\ Len(utt_frames.speech) = 2
    /\ utt_frames.last_speech = 3
    /\ utt_frames.received = 3 + max_silence_chunks
    /\ EventsOf(MSG_TYPE_VAD_STATE) =
          <<Ev(MSG_TYPE_VAD_STATE, "true"), Ev(MSG_TYPE_VAD_STATE, "false")>>

\* The TTS request of a turn is open or streaming.
Synthesising == ws_pc \in {"tts_open", "tts_stream"}

C33_NotSpeakingAfterSynthesis ==
    ws_pc = "recv" => (~tts_playing /\ tts_cancel_event = None)

\* The handler waits for the next message after a TTS stream that raised
\* after its first chunk.
C33_Witness ==
    /\ ws_pc = "recv"
    /\ ~tts_playing /\ tts_cancel_event = None
    /\ Len(EventsOf(MSG_TYPE_TTS_CHUNK)) = 1
    /\ events[Len(events)] = Ev(MSG_TYPE_ERROR, "TTS streaming error")

\* C34: the audio of an utterance is used once.  The stored buffer is empty
\* from the moment the STT request of an ended utterance is made, through the
\* whole pipeline and after it, whatever STT answered; the request carries
\* the speech frames received since the utterance began and no others; and
\* the buffer of the next utterance holds the frames of that utterance only,
\* so that no frame is part of two requests.
C34_UtteranceConsumedOnce ==
    /\ ws_pc \in PipelineStates => session.buffer = <<>>
    /\ ws_pc = "stt" => SttAudio = Concat(utt_frames.speech)
    /\ (ws_pc = "recv" /\ ~speaking) => session.buffer = <<>>
    /\ (ws_pc = "recv" /\ speaking) =>
          B64Decode(session.buffer) = Concat(utt_frames.speech)

\* The STT request of a first utterance has failed, and the request of the
\* second utterance is in flight with the one frame of that utterance.
C34_Witness ==
    /\ ws_pc = "stt"
    /\ client.stt_failed = 1 /\ client.stt_ok = 0
    /\ client.speech = 2
    /\ SttAudio = SpeechFrameB
    /\ session.buffer = <<>>

\* In this step an STT request is made.
SttRequested == ws_pc' = "stt" /\ (ws_pc # "stt" \/ turn' # turn)

\* In this step a transcript_final event is sent.
TranscriptSent ==
    \E i \in 1..Len(SentInStep) : SentInStep[i].type = MSG_TYPE_TRANSCRIPT_FINAL

\* C35: in one session at most one pipeline is in flight: an STT request is
\* made only when no turn is in progress, in the very step in which an
\* utterance ends and with the audio of that utterance; while a pipeline is
\* in flight no message is taken from the socket, so that no other utterance
\* begins or ends; and a transcript_final is the answer to the request in
\* flight.  Utterances therefore reach STT, and their transcripts the
\* client, in the order in which they ended.
C35_SessionFifo ==
    [][/\ SttRequested =>
             /\ ws_pc = "recv" /\ turn = NoTurn
             /\ VadSent("false") = 1
             /\ B64Decode(turn'.audio_b64) = Concat(utt_frames'.speech)
       /\ ws_pc \in PipelineStates =>
             /\ VadSent("true") + VadSent("false") = 0
             /\ ws_pc' \notin Terminated =>
                   /\ Len(inbox') >= Len(inbox)
                   /\ SubSeq(inbox', 1, Len(inbox)) = inbox
                   /\ turn'.audio_b64 \in {turn.audio_b64, <<>>}
       /\ TranscriptSent =>
             /\ ws_pc = "stt" /\ ws_pc' = "llm2"
             /\ turn'.audio_b64 = turn.audio_b64
             /\ SentInStep = <<Ev(MSG_TYPE_TRANSCRIPT_FINAL, turn'.transcript)>>]_vars

\* The STT request of a first utterance has failed; the second utterance has
\* been transcribed and its LLM2 request is in flight, while a frame the
\* client has sent since waits in the socket.
C35_Witness ==
    /\ ws_pc = "llm2"
    /\ client.stt_ok = 1
    /\ SttAudio = SpeechFrameB
    /\ turn.transcript = "hello"
    /\ events[Len(events)] = Ev(MSG_TYPE_TRANSCRIPT_FINAL, "hello")
    /\ inbox # <<>>

\* C36: whenever the handler waits for the next message, the stored history
\* is made of whole exchanges, each user entry followed at once by a
\* character entry; and after a turn that got its transcript but then failed
\* (an error event follows the transcript_final) the history holds nothing of
\* that turn: no more than one exchange for each earlier transcribed turn.
C36_HistoryCompleteExchanges ==
    ws_pc = "recv" =>
       /\ Len(session.history) % 2 = 0
       /\ \A i \in 1..Len(session.history) :
             session.history[i].sender = (IF i % 2 = 1 THEN "user" ELSE "character")
       /\ (EventsOf(MSG_TYPE_TRANSCRIPT_FINAL) # <<>> /\ EventsOf(MSG_TYPE_ERROR) # <<>>)
             => Len(session.history) <= 2 * (client.stt_ok - 1)

====
